---- MODULE Spec2Model ----
(***************************************************************************)
(* Model of the VDA 5050 vehicle simulation engine (VehicleSimulator in    *)
(* vehicle_simulator.rs) and of the geometry helpers it calls (utils.rs).  *)
(*                                                                         *)
(* An f32 is modelled as a fixed-point number in thousandths (2000 is     *)
(* 2.0, PI is 3142).  The positions that occur are whole metres on the x   *)
(* axis (y = 0) and settings.speed is 1.0, so that every x the engine      *)
(* computes is exact in f32 and no comparison lies on a rounding boundary. *)
(***************************************************************************)
EXTENDS Integers, Sequences, FiniteSets, TLC

VARIABLES state, visualization, order, instant_actions, action_start_time,
          now,
          connection, published, lock, pub_pc, state_counter,
          visualization_counter, sub_pc, incoming,
          fleet

engine == <<state, visualization, order, instant_actions, action_start_time>>
(* the Connection buffer of the engine, the messages the broker has taken,
   the mutex around the engine and the two tasks of mqtt_handler.rs *)
adapter == <<connection, published, lock, pub_pc, state_counter,
             visualization_counter, sub_pc, incoming>>
vars == <<state, visualization, order, instant_actions, action_start_time,
          now, connection, published, lock, pub_pc, state_counter,
          visualization_counter, sub_pc, incoming, fleet>>

(* ---------------- bounds ---------------- *)
MaxUpdateId == 1
MaxTime == 1
(* the header_id up to which the publisher task is followed *)
MaxHeaderId == 2

(* ---------------- settings ---------------- *)
Speed == 1000
ActionTime == 1
RobotCount == 2
StateFrequency == 10
VisualizationFrequency == 20
PI == 3142
Tenth == 100

(* ---------------- Option<T> ---------------- *)
None == << >>
Some(v) == <<v>>
IsSome(o) == o # << >>
Unwrap(o) == o[1]
unwrap_or(o, d) == IF IsSome(o) THEN Unwrap(o) ELSE d

(* F(v) with v evaluated once and named, as a let binding of the source *)
Apply(F(_), v) == CHOOSE r \in {F(x) : x \in {v}} : TRUE

(* index of the first element of s satisfying P, 0 when there is none *)
Position(s, P(_)) ==
  IF \E i \in 1..Len(s) : P(s[i])
  THEN CHOOSE i \in 1..Len(s) : P(s[i]) /\ \A j \in 1..(i-1) : ~P(s[j])
  ELSE 0

RemoveFirst(s) == SubSeq(s, 2, Len(s))

(* ---------------- utils.rs ---------------- *)
(* squared Euclidean distance; get_distance is its square root *)
get_distance_sq(x1, y1, x2, y2) == (x1 - x2) * (x1 - x2) + (y1 - y2) * (y1 - y2)

(* get_distance(..) <= 0.1 *)
DistanceLe01(x1, y1, x2, y2) == get_distance_sq(x1, y1, x2, y2) <= Tenth * Tenth

(* get_distance(..) < speed + 0.1 *)
DistanceLtSpeedPlus01(x1, y1, x2, y2) ==
  get_distance_sq(x1, y1, x2, y2) < (Speed + Tenth) * (Speed + Tenth)

(* atan2(dy, dx) on the x axis: 0 for dx >= 0 (atan2(0,0) = 0), PI for dx < 0 *)
atan2_axis(dy, dx) == IF dx < 0 THEN PI ELSE 0
cos_axis(a) == IF a = PI THEN -1 ELSE 1

iterate_position(current_x, current_y, target_x, target_y, speed) ==
  LET angle == atan2_axis(target_y - current_y, target_x - current_x)
  IN  <<current_x + speed * cos_axis(angle), current_y, angle>>

(* 1.0 in thousandths *)
One == 1000
Min(a, b) == IF a <= b THEN a ELSE b
Max(a, b) == IF a >= b THEN a ELSE b
Abs(a) == IF a < 0 THEN -a ELSE a

(* f[lo] + ... + f[hi], halving the range *)
RECURSIVE SumRange(_, _, _)
SumRange(f, lo, hi) ==
  IF lo > hi THEN 0
  ELSE IF lo = hi THEN f[lo]
  ELSE LET mid == (lo + hi) \div 2
       IN  SumRange(f, lo, mid) + SumRange(f, mid + 1, hi)

(* f[0] + ... + f[n] *)
SumTo(f, n) == SumRange(f, 0, n)

RECURSIVE Pow(_, _)
Pow(b, e) == IF e = 0 THEN 1 ELSE b * Pow(b, e - 1)

(* get_distance between points of the x axis *)
get_distance_axis(x1, x2) == Abs(x1 - x2)

(* Trajectory and ControlPoint; weight and orientation are Options *)
ControlPoint(px, py, w, o) == [x |-> px, y |-> py, weight |-> w, orientation |-> o]
Trajectory(d, knots, points) ==
  [degree |-> d, knot_vector |-> knots, control_points |-> points]

(* how a call ends: "none" returned normally; "panic" a panic in every
   build (index out of bounds, capacity overflow); "overflow_check" an usize
   subtraction below 0, a panic where overflow checks are compiled in and a
   wrap-around elsewhere, whose result the value then is *)
NoFault == "none"
Panic == "panic"
OverflowCheck == "overflow_check"
JoinFault(f, g) ==
  IF f = Panic \/ g = Panic THEN Panic
  ELSE IF f = OverflowCheck \/ g = OverflowCheck THEN OverflowCheck
  ELSE NoFault

(* basis_functions: the n weights at u, each multiplied by One^degree (a
   level of the recursion multiplies by one (u - knot) / denom), indexed
   from 0 as in the source *)
basis_functions(degree, knot_vector, u) ==
  LET len == Len(knot_vector)
      n == len - degree - 1
      knot(i) == knot_vector[i + 1]
      found == {i \in degree..(len - 2) : u >= knot(i) /\ u < knot(i + 1)}
      in_span == IF found = {} THEN degree
                 ELSE CHOOSE i \in found : \A j \in found : i <= j
      span == IF u >= knot(len - 1) THEN len - degree - 2 ELSE in_span
      level[k \in 0..degree] ==
        IF k = 0 THEN [j \in 0..(n - 1) |-> IF j = span THEN 1 ELSE 0]
        ELSE LET basis == level[k - 1]
                 left(j) ==
                   IF basis[j] # 0 /\ knot(j + k) - knot(j) # 0
                   THEN basis[j] * (((u - knot(j)) * One)
                                      \div (knot(j + k) - knot(j)))
                   ELSE 0
                 right(j) ==
                   IF j < n - 1 /\ basis[j + 1] # 0
                      /\ knot(j + k + 1) - knot(j + 1) # 0
                   THEN basis[j + 1] * (((knot(j + k + 1) - u) * One)
                                          \div (knot(j + k + 1) - knot(j + 1)))
                   ELSE 0
             IN  [j \in 0..(n - 1) |->
                    IF j >= span - k /\ j <= span THEN left(j) + right(j) ELSE 0]
  IN  IF n < 0 THEN [fault |-> Panic, basis |-> << >>]
      ELSE IF span < 0 \/ span >= n THEN [fault |-> Panic, basis |-> << >>]
      ELSE IF degree >= 1 /\ span - degree < 0
      THEN [fault |-> OverflowCheck, basis |-> [j \in 0..(n - 1) |-> 0]]
      ELSE [fault |-> NoFault, basis |-> level[degree]]

(* evaluate_nurbs_with_tangent, one of its two passes over the weights: the
   weighted point of the curve, theta the weighted orientation of the
   control points that have one; weights is what basis_functions returned *)
nurbs_point(trajectory, weights) ==
  LET n == Len(trajectory.knot_vector) - trajectory.degree - 1
      scale == Pow(One, trajectory.degree)
      basis == weights.basis
      control_point(i) == trajectory.control_points[i + 1]
      weighted_weight == [i \in 0..(n - 1) |->
         IF basis[i] > 0
         THEN (basis[i] * unwrap_or(control_point(i).weight, One)) \div One
         ELSE 0]
      explicit == {i \in 0..(n - 1) :
                     basis[i] > 0 /\ IsSome(control_point(i).orientation)}
      sums == [c \in {"x", "y", "theta", "theta_weight", "weight"} |->
                SumTo([i \in 0..(n - 1) |->
                   CASE basis[i] <= 0 -> 0
                     [] c = "x" -> control_point(i).x * weighted_weight[i]
                     [] c = "y" -> control_point(i).y * weighted_weight[i]
                     [] c = "theta" ->
                          IF i \in explicit
                          THEN Unwrap(control_point(i).orientation) * weighted_weight[i]
                          ELSE 0
                     [] c = "theta_weight" ->
                          IF i \in explicit THEN weighted_weight[i] ELSE 0
                     [] c = "weight" -> weighted_weight[i]],
                   n - 1)]
      divisor == IF sums["weight"] > 0 THEN sums["weight"] ELSE scale
  IN  IF weights.fault = Panic THEN [fault |-> Panic]
      ELSE IF \E i \in 0..(n - 1) :
                basis[i] > 0 /\ i >= Len(trajectory.control_points)
      THEN [fault |-> Panic]
      ELSE [fault |-> weights.fault,
            x |-> sums["x"] \div divisor,
            y |-> sums["y"] \div divisor,
            theta |-> IF sums["weight"] > 0 /\ explicit # {}
                         /\ sums["theta_weight"] > 0
                      THEN sums["theta"] \div sums["theta_weight"]
                      ELSE sums["theta"] \div scale,
            has_explicit_theta |-> explicit # {}]

(* 0.001, the step of the tangent *)
delta == 1

(* evaluate_nurbs_with_tangent, its end: the tangent between the point at u
   and the point at u_next *)
with_tangent(point, point_next) ==
  IF point.fault = Panic \/ point_next.fault = Panic THEN [fault |-> Panic]
  ELSE [fault |-> JoinFault(point.fault, point_next.fault),
        x |-> point.x, y |-> point.y, theta |-> point.theta,
        tangent_theta |-> atan2_axis(point_next.y - point.y,
                                     point_next.x - point.x),
        has_explicit_theta |-> point.has_explicit_theta]

(* the weighted point of the curve at u *)
curve_point(trajectory, u) ==
  Apply(LAMBDA weights : nurbs_point(trajectory, weights),
        basis_functions(trajectory.degree, trajectory.knot_vector, u))

evaluate_nurbs_with_tangent(trajectory, u) ==
  Apply(LAMBDA points : with_tangent(points[1], points[2]),
        <<curve_point(trajectory, u),
          curve_point(trajectory, Min(u + delta, One))>>)

num_samples == 100

(* the curve at u = i / num_samples, i = 0..num_samples *)
SampleCurve(trajectory) ==
  [i \in 0..num_samples |->
     evaluate_nurbs_with_tangent(trajectory, (i * One) \div num_samples)]

SamplesFault(samples) ==
  IF \E i \in 0..num_samples : samples[i].fault = Panic THEN Panic
  ELSE IF \E i \in 0..num_samples : samples[i].fault = OverflowCheck
  THEN OverflowCheck
  ELSE NoFault

(* the least of f[lo], ..., f[hi], halving the range *)
RECURSIVE MinRange(_, _, _)
MinRange(f, lo, hi) ==
  IF lo = hi THEN f[lo]
  ELSE LET mid == (lo + hi) \div 2
       IN  Min(MinRange(f, lo, mid), MinRange(f, mid + 1, hi))

(* the first index of distance_sq holding min_distance *)
first_closest(distance_sq, min_distance) ==
  CHOOSE i \in 0..num_samples :
    /\ distance_sq[i] = min_distance
    /\ \A j \in 0..(i - 1) : distance_sq[j] # min_distance

closest_of(distance_sq) ==
  first_closest(distance_sq, MinRange(distance_sq, 0, num_samples))

(* find_closest_parameter over the samples: the first sample at the least
   distance from the current position *)
find_closest_parameter(samples, current_x, current_y) ==
  (closest_of([i \in 0..num_samples |->
                 get_distance_sq(current_x, current_y, samples[i].x, samples[i].y)])
     * One) \div num_samples

(* the total_length of iterate_position_with_trajectory *)
total_length_of(samples) ==
  SumTo([i \in 0..(num_samples - 1) |->
           get_distance_axis(samples[i].x, samples[i + 1].x)], num_samples - 1)

(* the parameter_step of iterate_position_with_trajectory *)
parameter_step_of(total_length, speed, degree) ==
  IF total_length > 0
  THEN IF degree = 2
       THEN Min((speed * One) \div total_length, 50)
       ELSE Min((speed * One) \div total_length, 100)
  ELSE speed \div 2

(* iterate_position_with_trajectory from the evaluation at next_u on *)
curve_step(next, next_u, target_x, target_y, speed) ==
  LET final_theta == IF next.has_explicit_theta THEN next.theta
                     ELSE next.tangent_theta
      angle == atan2_axis(target_y - next.y, target_x - next.x)
  IN  IF get_distance_sq(next.x, next.y, target_x, target_y) <= speed * speed
      THEN <<target_x, target_y, final_theta>>
      ELSE IF next_u >= 990
      THEN <<next.x + speed * cos_axis(angle), next.y, angle>>
      ELSE <<next.x, next.y, final_theta>>

(* iterate_position_with_trajectory with the outcome of its calls *)
curve_outcome(samples_fault, next, next_u, current_x, current_y, target_x, target_y, speed) ==
  IF samples_fault = Panic \/ next.fault = Panic
  THEN [fault |-> Panic, position |-> <<current_x, current_y, 0>>]
  ELSE [fault |-> JoinFault(samples_fault, next.fault),
        position |-> curve_step(next, next_u, target_x, target_y, speed)]

(* iterate_position_with_trajectory from next_u on *)
curve_at(samples_fault, next_u, current_x, current_y, target_x, target_y, speed, trajectory) ==
  IF samples_fault = Panic
  THEN [fault |-> Panic, position |-> <<current_x, current_y, 0>>]
  ELSE Apply(LAMBDA next :
               curve_outcome(samples_fault, next, next_u, current_x, current_y,
                             target_x, target_y, speed),
             evaluate_nurbs_with_tangent(trajectory, next_u))

(* iterate_position_with_trajectory for the sampled curve *)
iterate_along(samples, current_x, current_y, target_x, target_y, speed, trajectory) ==
  IF SamplesFault(samples) = Panic
  THEN [fault |-> Panic, position |-> <<current_x, current_y, 0>>]
  ELSE curve_at(SamplesFault(samples),
                Min(find_closest_parameter(samples, current_x, current_y)
                      + parameter_step_of(total_length_of(samples), speed,
                                          trajectory.degree),
                    One),
                current_x, current_y, target_x, target_y, speed, trajectory)

(* iterate_position_with_straight_line whose new_t is not held at the end of
   the segment *)
iterate_position_with_straight_line_unclamped(current_x, current_y, target_x, target_y, speed, trajectory) ==
  LET start_x == trajectory.control_points[1].x
      start_y == trajectory.control_points[1].y
      end_x == trajectory.control_points[2].x
      end_y == trajectory.control_points[2].y
      line_length == get_distance_axis(start_x, end_x)
      dot_product == (current_x - start_x) * (end_x - start_x)
                       + (current_y - start_y) * (end_y - start_y)
      t == IF line_length > 0
           THEN Min(Max(dot_product \div line_length, 0), line_length)
           ELSE 0
      distance_to_move == speed
      new_t == t + distance_to_move
      new_x == IF line_length > 0
               THEN start_x + (new_t * (end_x - start_x)) \div line_length
               ELSE start_x + (end_x - start_x)
      new_y == IF line_length > 0
               THEN start_y + (new_t * (end_y - start_y)) \div line_length
               ELSE start_y + (end_y - start_y)
      theta == atan2_axis(end_y - start_y, end_x - start_x)
  IN  IF get_distance_sq(new_x, new_y, target_x, target_y) <= speed * speed
      THEN [fault |-> NoFault, position |-> <<target_x, target_y, theta>>]
      ELSE [fault |-> NoFault, position |-> <<new_x, new_y, theta>>]

(* iterate_position_with_straight_line; t and new_t are kept multiplied by
   line_length, so that dividing by a zero line_length shows as its own case:
   t = 0.0 and new_t = (0.0 + inf).min(1.0) = 1.0 *)
iterate_position_with_straight_line(current_x, current_y, target_x, target_y, speed, trajectory) ==
  LET start_x == trajectory.control_points[1].x
      start_y == trajectory.control_points[1].y
      end_x == trajectory.control_points[2].x
      end_y == trajectory.control_points[2].y
      line_length == get_distance_axis(start_x, end_x)
      dot_product == (current_x - start_x) * (end_x - start_x)
                       + (current_y - start_y) * (end_y - start_y)
      t == IF line_length > 0
           THEN Min(Max(dot_product \div line_length, 0), line_length)
           ELSE 0
      distance_to_move == speed
      new_t == Min(t + distance_to_move, line_length)
      new_x == IF line_length > 0
               THEN start_x + (new_t * (end_x - start_x)) \div line_length
               ELSE start_x + (end_x - start_x)
      new_y == IF line_length > 0
               THEN start_y + (new_t * (end_y - start_y)) \div line_length
               ELSE start_y + (end_y - start_y)
      theta == atan2_axis(end_y - start_y, end_x - start_x)
  IN  IF get_distance_sq(new_x, new_y, target_x, target_y) <= speed * speed
      THEN [fault |-> NoFault, position |-> <<target_x, target_y, theta>>]
      ELSE [fault |-> NoFault, position |-> <<new_x, new_y, theta>>]

iterate_position_with_trajectory(current_x, current_y, target_x, target_y, speed, trajectory) ==
  IF trajectory.degree = 1 /\ Len(trajectory.control_points) = 2
  THEN iterate_position_with_straight_line(current_x, current_y, target_x,
                                           target_y, speed, trajectory)
  ELSE Apply(LAMBDA samples :
               iterate_along(samples, current_x, current_y,
                             target_x, target_y, speed, trajectory),
             SampleCurve(trajectory))

(* ---------------- protocol values ---------------- *)
Waiting == "WAITING"
Running == "RUNNING"
Finished == "FINISHED"

(* ActionParameterValue: Int(i32) | Float(f32) | Str(String) *)
IntV(i) == [kind |-> "Int", v |-> i]
FloatV(f) == [kind |-> "Float", v |-> f]
StrV(s) == [kind |-> "Str", v |-> s]
Param(k, val) == [key |-> k, value |-> val]

(* s.parse::<f32>() of the strings that occur as parameter values:
   Some(value) for a decimal literal, None otherwise *)
parse_f32(s) ==
  CASE s = "0" -> Some(0)
    [] s = "2" -> Some(2000)
    [] s = "1.57" -> Some(1570)
    [] OTHER -> None


Action(id, type, params) ==
  [action_id |-> id, action_type |-> type, action_parameters |-> params]

NodePosition(px, py) == [x |-> px, y |-> py]

Node(id, seq, rel, pos, acts) ==
  [node_id |-> id, sequence_id |-> seq, released |-> rel,
   node_position |-> pos, actions |-> acts]

Edge(id, seq, rel, traj, acts) ==
  [edge_id |-> id, sequence_id |-> seq, released |-> rel,
   trajectory |-> traj, actions |-> acts]

Order(oid, uid, ns, es) ==
  [order_id |-> oid, order_update_id |-> uid, nodes |-> ns, edges |-> es]

InstantActions(acts) == [actions |-> acts]

(* ---------------- vehicle_simulator.rs ---------------- *)
(* A VehicleSimulator value `self` is the record
   [state, visualization, order, instant_actions, action_start_time]. *)

AgvPosition(px, py, th, init, map) ==
  [x |-> px, y |-> py, theta |-> th, position_initialized |-> init, map_id |-> map]

ActionState(id, status, type) ==
  [action_id |-> id, action_status |-> status, action_type |-> type]

find_action_state_index(self, action_id) ==
  Position(self.state.action_states, LAMBDA a : a.action_id = action_id)

(* extract_float_param converting an integer value to a float *)
extract_float_param_casting(action, key) ==
  LET params == action.action_parameters
      i == IF IsSome(params)
           THEN Position(Unwrap(params), LAMBDA p : p.key = key) ELSE 0
  IN  IF i = 0 THEN 0
      ELSE LET value == Unwrap(params)[i].value
           IN  CASE value.kind = "Str" -> unwrap_or(parse_f32(value.v), 0)
                 [] value.kind = "Float" -> value.v
                 [] OTHER -> value.v * 1000

extract_float_param(action, key) ==
  LET params == action.action_parameters
      i == IF IsSome(params)
           THEN Position(Unwrap(params), LAMBDA p : p.key = key) ELSE 0
  IN  IF i = 0 THEN 0
      ELSE LET value == Unwrap(params)[i].value
           IN  CASE value.kind = "Str" -> unwrap_or(parse_f32(value.v), 0)
                 [] value.kind = "Float" -> value.v
                 [] OTHER -> 0

extract_string_param(action, key) ==
  LET params == action.action_parameters
      i == IF IsSome(params)
           THEN Position(Unwrap(params), LAMBDA p : p.key = key) ELSE 0
  IN  IF i = 0 THEN ""
      ELSE LET value == Unwrap(params)[i].value
           IN  IF value.kind = "Str" THEN value.v ELSE ""

extract_init_position_parameters(action) ==
  [x |-> extract_float_param(action, "x"),
   y |-> extract_float_param(action, "y"),
   theta |-> extract_float_param(action, "theta"),
   map_id |-> extract_string_param(action, "mapId"),
   last_node_id |-> extract_string_param(action, "lastNodeId")]

(* handle_init_position_action leaving position_initialized false *)
handle_init_position_action_uninitialized(self, action) ==
  LET init_params == extract_init_position_parameters(action)
      pos == Some(AgvPosition(init_params.x, init_params.y, init_params.theta,
                              FALSE, init_params.map_id))
  IN  [self EXCEPT !.state.agv_position = pos,
                   !.state.last_node_id = init_params.last_node_id,
                   !.visualization.agv_position = pos]

(* handle_init_position_action without the copy into the visualization *)
handle_init_position_action_no_mirror(self, action) ==
  LET init_params == extract_init_position_parameters(action)
      pos == Some(AgvPosition(init_params.x, init_params.y, init_params.theta,
                              TRUE, init_params.map_id))
  IN  [self EXCEPT !.state.agv_position = pos,
                   !.state.last_node_id = init_params.last_node_id]

handle_init_position_action(self, action) ==
  LET init_params == extract_init_position_parameters(action)
      pos == Some(AgvPosition(init_params.x, init_params.y, init_params.theta,
                              TRUE, init_params.map_id))
  IN  [self EXCEPT !.state.agv_position = pos,
                   !.state.last_node_id = init_params.last_node_id,
                   !.visualization.agv_position = pos]

(* run_action calling the initPosition handler for every action_type *)
run_action_any_type(self, action) ==
  LET i == find_action_state_index(self, action.action_id)
  IN  IF i = 0 THEN self
      ELSE LET running == [self EXCEPT
                             !.state.action_states[i].action_status = Running]
               handled == handle_init_position_action(running, action)
           IN  [handled EXCEPT !.state.action_states[i].action_status = Finished]

run_action(self, action) ==
  LET i == find_action_state_index(self, action.action_id)
  IN  IF i = 0 THEN self
      ELSE LET running == [self EXCEPT
                             !.state.action_states[i].action_status = Running]
               handled == IF action.action_type = "initPosition"
                          THEN handle_init_position_action(running, action)
                          ELSE running
           IN  [handled EXCEPT !.state.action_states[i].action_status = Finished]

(* accept_instant_actions replacing the ActionStates instead of appending *)
accept_instant_actions_replacing(self, instant_action_request) ==
  LET new_states == [i \in 1..Len(instant_action_request.actions) |->
                       ActionState(instant_action_request.actions[i].action_id,
                                   Waiting,
                                   Some(instant_action_request.actions[i].action_type))]
  IN  [self EXCEPT !.instant_actions = Some(instant_action_request),
                   !.state.action_states = new_states]

accept_instant_actions(self, instant_action_request) ==
  LET new_states == [i \in 1..Len(instant_action_request.actions) |->
                       ActionState(instant_action_request.actions[i].action_id,
                                   Waiting,
                                   Some(instant_action_request.actions[i].action_type))]
  IN  [self EXCEPT !.instant_actions = Some(instant_action_request),
                   !.state.action_states = @ \o new_states]

(* An order operation yields [self |-> the engine after it, log |-> the line
   it printed]. *)
AcceptLog == "Accepting order"
RejectActive == "Rejecting order: There are active order states or edge states"
RejectUpdateId == "Rejecting order: Order update ID is lower than current"
RejectArrival == "Rejecting order: Vehicle has not arrived at the latest released node"
RejectProximity == "Rejecting order: Vehicle is not close enough to last released node"
RejectLogs == {RejectActive, RejectUpdateId, RejectArrival, RejectProximity}

reject_order(self, reason) == [self |-> self, log |-> reason]

(* is_vehicle_close_to_last_released_node taking the last released NodeState *)
is_vehicle_close_to_the_last_released(self) ==
  LET released == {k \in 1..Len(self.state.node_states) :
                     self.state.node_states[k].released}
      i == IF released = {} THEN 0
           ELSE CHOOSE k \in released : \A other \in released : other <= k
  IN  IF i # 0 /\ IsSome(self.state.node_states[i].node_position)
               /\ IsSome(self.state.agv_position)
      THEN LET node_position == Unwrap(self.state.node_states[i].node_position)
               vehicle_position == Unwrap(self.state.agv_position)
           IN  DistanceLe01(vehicle_position.x, vehicle_position.y,
                            node_position.x, node_position.y)
      ELSE TRUE

is_vehicle_close_to_last_released_node(self) ==
  LET i == Position(self.state.node_states, LAMBDA node : node.released)
  IN  IF i # 0 /\ IsSome(self.state.node_states[i].node_position)
               /\ IsSome(self.state.agv_position)
      THEN LET node_position == Unwrap(self.state.node_states[i].node_position)
               vehicle_position == Unwrap(self.state.agv_position)
           IN  DistanceLe01(vehicle_position.x, vehicle_position.y,
                            node_position.x, node_position.y)
      ELSE TRUE

(* can_accept_new_order without the test of the latest released node *)
can_accept_new_order_without_arrival(self) ==
  IF ~is_vehicle_close_to_last_released_node(self)
  THEN RejectProximity
  ELSE ""

(* "" when the shared checks pass, the rejection printed otherwise *)
can_accept_new_order(self) ==
  LET has_unreleased_nodes ==
        \E i \in 1..Len(self.state.node_states) : ~self.state.node_states[i].released
  IN  IF has_unreleased_nodes
         /\ self.state.node_states[1].sequence_id # self.state.last_node_sequence_id
      THEN RejectArrival
      ELSE IF ~is_vehicle_close_to_last_released_node(self)
      THEN RejectProximity
      ELSE ""

(* is_vehicle_ready_for_new_order without the edge_states test *)
is_vehicle_ready_ignoring_edges(self) ==
  /\ self.state.node_states = << >>
  /\ IF IsSome(self.state.agv_position)
     THEN Unwrap(self.state.agv_position).position_initialized
     ELSE FALSE

is_vehicle_ready_for_new_order(self) ==
  /\ self.state.node_states = << >>
  /\ self.state.edge_states = << >>
  /\ IF IsSome(self.state.agv_position)
     THEN Unwrap(self.state.agv_position).position_initialized
     ELSE FALSE

add_action_state(action) == ActionState(action.action_id, Waiting, Some(action.action_type))

RECURSIVE ActionStatesOf(_)
(* the ActionStates pushed while walking a list of nodes (or edges) in order *)
ActionStatesOf(items) ==
  IF items = << >> THEN << >>
  ELSE [i \in 1..Len(Head(items).actions) |-> add_action_state(Head(items).actions[i])]
       \o ActionStatesOf(Tail(items))

process_order_nodes(self) ==
  LET nodes == Unwrap(self.order).nodes
  IN  [self EXCEPT
         !.state.node_states = @ \o
            [i \in 1..Len(nodes) |->
               [node_id |-> nodes[i].node_id, sequence_id |-> nodes[i].sequence_id,
                released |-> nodes[i].released,
                node_position |-> nodes[i].node_position]],
         !.state.action_states = @ \o ActionStatesOf(nodes)]

(* process_order_edges projecting the released edges only *)
process_order_edges_released(self) ==
  LET edges == SelectSeq(Unwrap(self.order).edges, LAMBDA e : e.released)
  IN  [self EXCEPT
         !.state.edge_states = @ \o
            [i \in 1..Len(edges) |->
               [edge_id |-> edges[i].edge_id, sequence_id |-> edges[i].sequence_id,
                released |-> edges[i].released,
                trajectory |-> edges[i].trajectory]],
         !.state.action_states = @ \o ActionStatesOf(edges)]

process_order_edges(self) ==
  LET edges == Unwrap(self.order).edges
  IN  [self EXCEPT
         !.state.edge_states = @ \o
            [i \in 1..Len(edges) |->
               [edge_id |-> edges[i].edge_id, sequence_id |-> edges[i].sequence_id,
                released |-> edges[i].released,
                trajectory |-> edges[i].trajectory]],
         !.state.action_states = @ \o ActionStatesOf(edges)]

(* accept_order starting the State over, header_id included *)
accept_order_resets_header(self, order_request) ==
  LET s1 == [self EXCEPT
               !.order = Some(order_request),
               !.state.header_id = 0,
               !.state.order_id = order_request.order_id,
               !.state.order_update_id = order_request.order_update_id]
      s2 == IF s1.state.order_update_id = 0
            THEN [s1 EXCEPT !.state.last_node_sequence_id = 0] ELSE s1
      s3 == [s2 EXCEPT !.state.action_states = << >>,
                       !.state.node_states = << >>,
                       !.state.edge_states = << >>]
  IN  [self |-> process_order_edges(process_order_nodes(s3)), log |-> AcceptLog]

(* accept_order without the clear of node_states *)
accept_order_keeps_nodes(self, order_request) ==
  LET s1 == [self EXCEPT
               !.order = Some(order_request),
               !.state.order_id = order_request.order_id,
               !.state.order_update_id = order_request.order_update_id]
      s2 == IF s1.state.order_update_id = 0
            THEN [s1 EXCEPT !.state.last_node_sequence_id = 0] ELSE s1
      s3 == [s2 EXCEPT !.state.action_states = << >>,
                       !.state.edge_states = << >>]
  IN  [self |-> process_order_edges(process_order_nodes(s3)), log |-> AcceptLog]

(* accept_order resetting last_node_sequence_id for every order_update_id *)
accept_order_always_resets(self, order_request) ==
  LET s1 == [self EXCEPT
               !.order = Some(order_request),
               !.state.order_id = order_request.order_id,
               !.state.order_update_id = order_request.order_update_id]
      s2 == [s1 EXCEPT !.state.last_node_sequence_id = 0]
      s3 == [s2 EXCEPT !.state.action_states = << >>,
                       !.state.node_states = << >>,
                       !.state.edge_states = << >>]
  IN  [self |-> process_order_edges(process_order_nodes(s3)), log |-> AcceptLog]

accept_order(self, order_request) ==
  LET s1 == [self EXCEPT
               !.order = Some(order_request),
               !.state.order_id = order_request.order_id,
               !.state.order_update_id = order_request.order_update_id]
      s2 == IF s1.state.order_update_id = 0
            THEN [s1 EXCEPT !.state.last_node_sequence_id = 0] ELSE s1
      s3 == [s2 EXCEPT !.state.action_states = << >>,
                       !.state.node_states = << >>,
                       !.state.edge_states = << >>]
  IN  [self |-> process_order_edges(process_order_nodes(s3)), log |-> AcceptLog]

(* handle_new_order clearing action_states before the readiness check *)
handle_new_order_clears_early(self, order_request) ==
  LET check == can_accept_new_order(self)
      cleared == [self EXCEPT !.state.action_states = << >>]
  IN  IF check # "" THEN reject_order(self, check)
      ELSE IF is_vehicle_ready_for_new_order(self)
      THEN accept_order(cleared, order_request)
      ELSE reject_order(cleared, RejectActive)

handle_new_order(self, order_request) ==
  LET check == can_accept_new_order(self)
  IN  IF check # "" THEN reject_order(self, check)
      ELSE IF is_vehicle_ready_for_new_order(self)
      THEN accept_order([self EXCEPT !.state.action_states = << >>], order_request)
      ELSE reject_order(self, RejectActive)

(* handle_order_update comparing with >= *)
handle_order_update_ge(self, order_request) ==
  IF order_request.order_update_id >= self.state.order_update_id
  THEN LET check == can_accept_new_order(self)
       IN  IF check # "" THEN reject_order(self, check)
           ELSE accept_order([self EXCEPT !.state.action_states = << >>], order_request)
  ELSE reject_order(self, RejectUpdateId)

(* handle_order_update accepting before the update id is compared *)
handle_order_update_unchecked(self, order_request) ==
  LET check == can_accept_new_order(self)
  IN  IF check # "" THEN reject_order(self, check)
      ELSE accept_order([self EXCEPT !.state.action_states = << >>], order_request)

(* handle_order_update accepting every order_update_id but the current one *)
handle_order_update_any_other(self, order_request) ==
  IF order_request.order_update_id # self.state.order_update_id
  THEN LET check == can_accept_new_order(self)
       IN  IF check # "" THEN reject_order(self, check)
           ELSE accept_order([self EXCEPT !.state.action_states = << >>], order_request)
  ELSE reject_order(self, RejectUpdateId)

handle_order_update(self, order_request) ==
  IF order_request.order_update_id > self.state.order_update_id
  THEN LET check == can_accept_new_order(self)
       IN  IF check # "" THEN reject_order(self, check)
           ELSE accept_order([self EXCEPT !.state.action_states = << >>], order_request)
  ELSE reject_order(self, RejectUpdateId)

process_order(self, order_request) ==
  IF order_request.order_id # self.state.order_id
  THEN handle_new_order(self, order_request)
  ELSE handle_order_update(self, order_request)

(* ---------------- the tick ---------------- *)
is_action_in_progress(self, current_time) ==
  IF IsSome(self.action_start_time)
  THEN current_time < Unwrap(self.action_start_time) + ActionTime
  ELSE FALSE

RECURSIVE RunWaiting(_, _)
(* the loop of process_instant_actions over the remaining actions *)
RunWaiting(self, actions) ==
  IF actions = << >> THEN self
  ELSE LET action == Head(actions)
           i == Position(self.state.action_states,
                         LAMBDA st : st.action_id = action.action_id)
           next == IF i # 0 /\ self.state.action_states[i].action_status = Waiting
                   THEN run_action(self, action) ELSE self
       IN  RunWaiting(next, Tail(actions))

(* process_instant_actions running every stored action that has an
   ActionState, whatever its status *)
process_instant_actions_rerunning(self) ==
  IF IsSome(self.instant_actions)
  THEN LET actions == Unwrap(self.instant_actions).actions
           rerun[k \in 0..Len(actions)] ==
             IF k = 0 THEN self ELSE run_action(rerun[k - 1], actions[k])
       IN  rerun[Len(actions)]
  ELSE self

process_instant_actions(self) ==
  IF IsSome(self.instant_actions)
  THEN RunWaiting(self, Unwrap(self.instant_actions).actions)
  ELSE self

find_order_last_node_index(self) ==
  Position(Unwrap(self.order).nodes,
           LAMBDA node : node.sequence_id = self.state.last_node_sequence_id)

(* process_node_actions finishing every WAITING action of the node *)
process_node_actions_all(self, current_time) ==
  LET order_last_node_index == find_order_last_node_index(self)
  IN  IF order_last_node_index = 0 THEN self
      ELSE LET node_actions == Unwrap(self.order).nodes[order_last_node_index].actions
               matches(st) == /\ st.action_status = Waiting
                              /\ \E k \in 1..Len(node_actions) :
                                   node_actions[k].action_id = st.action_id
           IN  IF \A i \in 1..Len(self.state.action_states) :
                     ~matches(self.state.action_states[i])
               THEN self
               ELSE [self EXCEPT
                       !.state.action_states =
                          [i \in 1..Len(@) |->
                             IF matches(@[i])
                             THEN [@[i] EXCEPT !.action_status = Finished]
                             ELSE @[i]],
                       !.action_start_time = Some(current_time)]

process_node_actions(self, current_time) ==
  LET order_last_node_index == find_order_last_node_index(self)
  IN  IF order_last_node_index = 0 THEN self
      ELSE LET node_actions == Unwrap(self.order).nodes[order_last_node_index].actions
               i == Position(self.state.action_states,
                             LAMBDA st : /\ st.action_status = Waiting
                                         /\ \E k \in 1..Len(node_actions) :
                                              node_actions[k].action_id = st.action_id)
           IN  IF i = 0 THEN self
               ELSE [self EXCEPT !.state.action_states[i].action_status = Finished,
                                 !.action_start_time = Some(current_time)]

(* get_next_node taking the second NodeState whatever last_node_sequence_id is *)
get_next_node_second(self) ==
  IF 0 >= Len(self.state.node_states) - 1 THEN None
  ELSE Some(self.state.node_states[2])

get_next_node(self) ==
  LET found == Position(self.state.node_states,
                        LAMBDA ns : ns.sequence_id = self.state.last_node_sequence_id)
      (* a 0-based index, 0 when no NodeState matches *)
      last_node_index == IF found = 0 THEN 0 ELSE found - 1
  IN  IF last_node_index >= Len(self.state.node_states) - 1 THEN None
      ELSE Some(self.state.node_states[last_node_index + 2])

calculate_new_position(self, vehicle_position, next_node_position, next_node) ==
  LET e == Position(self.state.edge_states,
                    LAMBDA edge : edge.sequence_id = next_node.sequence_id - 1)
  IN  CASE e = 0 \/ ~IsSome(self.state.edge_states[e].trajectory) ->
             iterate_position(vehicle_position.x, vehicle_position.y,
                              next_node_position.x, next_node_position.y, Speed)
        [] OTHER ->
             Apply(LAMBDA call :
                     iterate_position_with_trajectory(
                         call.current_x, call.current_y, call.target_x,
                         call.target_y, Speed, call.trajectory),
                   [current_x |-> vehicle_position.x,
                    current_y |-> vehicle_position.y,
                    target_x |-> next_node_position.x,
                    target_y |-> next_node_position.y,
                    trajectory |-> Unwrap(self.state.edge_states[e].trajectory)]
                  ).position

(* how the call of calculate_new_position ends *)
calculate_new_position_fault(self, vehicle_position, next_node_position, next_node) ==
  LET e == Position(self.state.edge_states,
                    LAMBDA edge : edge.sequence_id = next_node.sequence_id - 1)
  IN  IF e = 0 \/ ~IsSome(self.state.edge_states[e].trajectory) THEN NoFault
      ELSE Apply(LAMBDA call :
                   iterate_position_with_trajectory(
                       call.current_x, call.current_y, call.target_x,
                       call.target_y, Speed, call.trajectory),
                 [current_x |-> vehicle_position.x,
                  current_y |-> vehicle_position.y,
                  target_x |-> next_node_position.x,
                  target_y |-> next_node_position.y,
                  trajectory |-> Unwrap(self.state.edge_states[e].trajectory)]
                ).fault

(* update_vehicle_position whose arrival leaves node_states and edge_states *)
update_vehicle_position_keeps_head(self) ==
  IF ~IsSome(self.state.agv_position) \/ self.state.node_states = << >> THEN self
  ELSE IF Len(self.state.node_states) = 1
  THEN [self EXCEPT !.state.node_states = RemoveFirst(@)]
  ELSE LET next == get_next_node(self)
       IN  IF ~IsSome(next) THEN self
           ELSE IF ~Unwrap(next).released THEN self
           ELSE IF ~IsSome(Unwrap(next).node_position) THEN self
           ELSE
             LET next_node == Unwrap(next)
                 vehicle_position == Unwrap(self.state.agv_position)
                 next_node_position == Unwrap(next_node.node_position)
                 should_arrive == DistanceLtSpeedPlus01(
                     vehicle_position.x, vehicle_position.y,
                     next_node_position.x, next_node_position.y)
                 agv_pos == Apply(LAMBDA updated_position :
                                    Some([vehicle_position EXCEPT
                                            !.x = updated_position[1],
                                            !.y = updated_position[2],
                                            !.theta = updated_position[3]]),
                                  calculate_new_position(
                                      self, vehicle_position,
                                      next_node_position, next_node))
                 moved == [self EXCEPT !.state.agv_position = agv_pos,
                                       !.visualization.agv_position = agv_pos]
             IN  IF should_arrive
                 THEN [moved EXCEPT
                         !.state.last_node_id = next_node.node_id,
                         !.state.last_node_sequence_id = next_node.sequence_id]
                 ELSE moved

(* update_vehicle_position building a new AgvPosition from the coordinates *)
update_vehicle_position_rebuilt(self) ==
  IF ~IsSome(self.state.agv_position) \/ self.state.node_states = << >> THEN self
  ELSE IF Len(self.state.node_states) = 1
  THEN [self EXCEPT !.state.node_states = RemoveFirst(@)]
  ELSE LET next == get_next_node(self)
       IN  IF ~IsSome(next) THEN self
           ELSE IF ~Unwrap(next).released THEN self
           ELSE IF ~IsSome(Unwrap(next).node_position) THEN self
           ELSE
             LET next_node == Unwrap(next)
                 vehicle_position == Unwrap(self.state.agv_position)
                 next_node_position == Unwrap(next_node.node_position)
                 should_arrive == DistanceLtSpeedPlus01(
                     vehicle_position.x, vehicle_position.y,
                     next_node_position.x, next_node_position.y)
                 agv_pos == Apply(LAMBDA updated_position :
                                    Some(AgvPosition(updated_position[1],
                                                     updated_position[2],
                                                     updated_position[3], FALSE,
                                                     vehicle_position.map_id)),
                                  calculate_new_position(
                                      self, vehicle_position,
                                      next_node_position, next_node))
                 moved == [self EXCEPT !.state.agv_position = agv_pos,
                                       !.visualization.agv_position = agv_pos]
             IN  IF should_arrive
                 THEN [moved EXCEPT
                         !.state.node_states = RemoveFirst(@),
                         !.state.edge_states = RemoveFirst(@),
                         !.state.last_node_id = next_node.node_id,
                         !.state.last_node_sequence_id = next_node.sequence_id]
                 ELSE moved

(* update_vehicle_position testing the arrival on the position after the step *)
update_vehicle_position_arrives_after(self) ==
  IF ~IsSome(self.state.agv_position) \/ self.state.node_states = << >> THEN self
  ELSE IF Len(self.state.node_states) = 1
  THEN [self EXCEPT !.state.node_states = RemoveFirst(@)]
  ELSE LET next == get_next_node(self)
       IN  IF ~IsSome(next) THEN self
           ELSE IF ~Unwrap(next).released THEN self
           ELSE IF ~IsSome(Unwrap(next).node_position) THEN self
           ELSE
             LET next_node == Unwrap(next)
                 vehicle_position == Unwrap(self.state.agv_position)
                 next_node_position == Unwrap(next_node.node_position)
                 agv_pos == Apply(LAMBDA updated_position :
                                    Some([vehicle_position EXCEPT
                                            !.x = updated_position[1],
                                            !.y = updated_position[2],
                                            !.theta = updated_position[3]]),
                                  calculate_new_position(
                                      self, vehicle_position,
                                      next_node_position, next_node))
                 moved == [self EXCEPT !.state.agv_position = agv_pos,
                                       !.visualization.agv_position = agv_pos]
                 should_arrive == DistanceLtSpeedPlus01(
                     Unwrap(agv_pos).x, Unwrap(agv_pos).y,
                     next_node_position.x, next_node_position.y)
             IN  IF should_arrive
                 THEN [moved EXCEPT
                         !.state.node_states = RemoveFirst(@),
                         !.state.edge_states = RemoveFirst(@),
                         !.state.last_node_id = next_node.node_id,
                         !.state.last_node_sequence_id = next_node.sequence_id]
                 ELSE moved

(* update_vehicle_position treating the last NodeState as an arrival *)
update_vehicle_position_tail_arrives(self) ==
  IF ~IsSome(self.state.agv_position) \/ self.state.node_states = << >> THEN self
  ELSE IF Len(self.state.node_states) = 1
  THEN [self EXCEPT
          !.state.node_states = RemoveFirst(@),
          !.state.edge_states = RemoveFirst(@),
          !.state.last_node_id = self.state.node_states[1].node_id,
          !.state.last_node_sequence_id = self.state.node_states[1].sequence_id]
  ELSE LET next == get_next_node(self)
       IN  IF ~IsSome(next) THEN self
           ELSE IF ~Unwrap(next).released THEN self
           ELSE IF ~IsSome(Unwrap(next).node_position) THEN self
           ELSE
             LET next_node == Unwrap(next)
                 vehicle_position == Unwrap(self.state.agv_position)
                 next_node_position == Unwrap(next_node.node_position)
                 should_arrive == DistanceLtSpeedPlus01(
                     vehicle_position.x, vehicle_position.y,
                     next_node_position.x, next_node_position.y)
                 agv_pos == Apply(LAMBDA updated_position :
                                    Some([vehicle_position EXCEPT
                                            !.x = updated_position[1],
                                            !.y = updated_position[2],
                                            !.theta = updated_position[3]]),
                                  calculate_new_position(
                                      self, vehicle_position,
                                      next_node_position, next_node))
                 moved == [self EXCEPT !.state.agv_position = agv_pos,
                                       !.visualization.agv_position = agv_pos]
             IN  IF should_arrive
                 THEN [moved EXCEPT
                         !.state.node_states = RemoveFirst(@),
                         !.state.edge_states = RemoveFirst(@),
                         !.state.last_node_id = next_node.node_id,
                         !.state.last_node_sequence_id = next_node.sequence_id]
                 ELSE moved

update_vehicle_position(self) ==
  IF ~IsSome(self.state.agv_position) \/ self.state.node_states = << >> THEN self
  ELSE IF Len(self.state.node_states) = 1
  THEN [self EXCEPT !.state.node_states = RemoveFirst(@)]
  ELSE LET next == get_next_node(self)
       IN  IF ~IsSome(next) THEN self
           ELSE IF ~Unwrap(next).released THEN self
           ELSE IF ~IsSome(Unwrap(next).node_position) THEN self
           ELSE
             LET next_node == Unwrap(next)
                 vehicle_position == Unwrap(self.state.agv_position)
                 next_node_position == Unwrap(next_node.node_position)
                 should_arrive == DistanceLtSpeedPlus01(
                     vehicle_position.x, vehicle_position.y,
                     next_node_position.x, next_node_position.y)
                 agv_pos == Apply(LAMBDA updated_position :
                                    Some([vehicle_position EXCEPT
                                            !.x = updated_position[1],
                                            !.y = updated_position[2],
                                            !.theta = updated_position[3]]),
                                  calculate_new_position(
                                      self, vehicle_position,
                                      next_node_position, next_node))
                 moved == [self EXCEPT !.state.agv_position = agv_pos,
                                       !.visualization.agv_position = agv_pos]
             IN  IF should_arrive
                 THEN [moved EXCEPT
                         !.state.node_states = RemoveFirst(@),
                         !.state.edge_states = RemoveFirst(@),
                         !.state.last_node_id = next_node.node_id,
                         !.state.last_node_sequence_id = next_node.sequence_id]
                 ELSE moved

(* update_state testing is_action_in_progress after the instant actions *)
update_state_late_guard(self, current_time) ==
  Apply(LAMBDA s1 :
          IF is_action_in_progress(self, current_time) THEN s1
          ELSE IF ~IsSome(s1.order) THEN s1
          ELSE update_vehicle_position(process_node_actions(s1, current_time)),
        process_instant_actions(self))

update_state(self, current_time) ==
  IF is_action_in_progress(self, current_time) THEN self
  ELSE Apply(LAMBDA s1 :
               IF ~IsSome(s1.order) THEN s1
               ELSE update_vehicle_position(process_node_actions(s1, current_time)),
             process_instant_actions(self))

(* how update_vehicle_position ends: it reaches calculate_new_position after
   the same returns, and has changed nothing when that call panics *)
update_vehicle_position_fault(self) ==
  IF ~IsSome(self.state.agv_position) \/ Len(self.state.node_states) <= 1
  THEN NoFault
  ELSE LET next == get_next_node(self)
       IN  IF ~IsSome(next) THEN NoFault
           ELSE IF ~Unwrap(next).released THEN NoFault
           ELSE IF ~IsSome(Unwrap(next).node_position) THEN NoFault
           ELSE calculate_new_position_fault(
                    self, Unwrap(self.state.agv_position),
                    Unwrap(Unwrap(next).node_position), Unwrap(next))

(* the engine as update_state has it when it calls update_vehicle_position,
   None when the tick returns before *)
update_state_before_motion(self, current_time) ==
  IF is_action_in_progress(self, current_time) THEN None
  ELSE Apply(LAMBDA s1 :
               IF ~IsSome(s1.order) THEN None
               ELSE Some(process_node_actions(s1, current_time)),
             process_instant_actions(self))

(* how update_state ends *)
update_state_fault(self, current_time) ==
  Apply(LAMBDA before :
          IF IsSome(before) THEN update_vehicle_position_fault(Unwrap(before))
          ELSE NoFault,
        update_state_before_motion(self, current_time))

(* ---------------- inputs ---------------- *)
(* the x coordinates create_initial_state may draw (rand in [-2.5, 2.5]) *)
InitXs == {0, 1000}
ConfigMapId == "map0"

OrderIds == {"", "o1"}
UpdateIds == 0..MaxUpdateId

At(px) == Some(NodePosition(px, 0))
pick == Action("a1", "pick", None)
drop == Action("a2", "drop", None)
blink == Action("a3", "blink", None)

(* node and edge lists of the orders submitted; f is the sequence_id of the
   first node (sequence_ids interleave node, edge, node, ...) *)
ShapeEmpty == [nodes |-> << >>, edges |-> << >>]
ShapeTwo(f) ==
  [nodes |-> <<Node("n1", f, TRUE, At(0), <<pick>>),
               Node("n2", f + 2, TRUE, At(2000), <<drop>>)>>,
   edges |-> <<Edge("e1", f + 1, TRUE, None, <<blink>>)>>]
ShapeHorizon(f) ==
  [nodes |-> <<Node("n1", f, TRUE, At(0), << >>),
               Node("n2", f + 2, TRUE, At(2000), <<drop>>),
               Node("n3", f + 4, FALSE, At(4000), << >>)>>,
   edges |-> <<Edge("e1", f + 1, TRUE, None, << >>),
               Edge("e2", f + 3, FALSE, None, << >>)>>]
ShapeExtraEdge(f) ==
  [nodes |-> <<Node("n1", f, TRUE, At(0), <<pick>>),
               Node("n2", f + 2, TRUE, At(2000), << >>)>>,
   edges |-> <<Edge("e1", f + 1, TRUE, None, << >>),
               Edge("e2", f + 3, TRUE, None, << >>)>>]
ShapeNoPosition(f) ==
  [nodes |-> <<Node("n1", f, TRUE, None, << >>),
               Node("n2", f + 2, TRUE, None, << >>)>>,
   edges |-> <<Edge("e1", f + 1, TRUE, None, << >>)>>]

(* two actions on the first node *)
ShapeBusy(f) ==
  [nodes |-> <<Node("n1", f, TRUE, At(0), <<pick, drop>>),
               Node("n2", f + 2, TRUE, At(2000), <<blink>>)>>,
   edges |-> <<Edge("e1", f + 1, TRUE, None, << >>)>>]

Shapes == {ShapeEmpty, ShapeTwo(0), ShapeHorizon(1), ShapeExtraEdge(1),
           ShapeNoPosition(1), ShapeBusy(0)}

Orders == {Order(oid, uid, sh.nodes, sh.edges) :
             oid \in OrderIds, uid \in UpdateIds, sh \in Shapes}

initA == Action("ia1", "initPosition",
                Some(<<Param("x", FloatV(0)), Param("y", FloatV(0)),
                       Param("theta", FloatV(1570)), Param("mapId", StrV("m1")),
                       Param("lastNodeId", StrV("n1"))>>))
initB == Action("ia2", "initPosition",
                Some(<<Param("lastNodeId", StrV("n2")), Param("x", StrV("2")),
                       Param("theta", StrV("left")), Param("mapId", IntV(7))>>))
honk == Action("ia3", "honk", None)

InstantActionsMessages ==
  {InstantActions(<<initA>>), InstantActions(<<honk, initB>>), InstantActions(<< >>)}

(* ---------------- publications (vehicle_simulator.rs) ---------------- *)
ConnectionBroken == "CONNECTIONBROKEN"
Online == "ONLINE"

create_initial_connection ==
  [header_id |-> 0, connection_state |-> ConnectionBroken]

(* publish_connection going ONLINE without a new header_id *)
connection_online_same_header(conn) ==
  [conn EXCEPT !.connection_state = Online]

(* publish_connection between its two publishes *)
connection_online(conn) ==
  [conn EXCEPT !.header_id = @ + 1, !.connection_state = Online]

(* publish_state and publish_visualization before the publish is awaited *)
publish_state(self) == [self EXCEPT !.state.header_id = @ + 1]
publish_visualization(self) == [self EXCEPT !.visualization.header_id = @ + 1]

(* what serde_json::to_string leaves of a buffer here: its header (and the
   connection_state of a Connection) *)
connection_message(conn) ==
  [header_id |-> conn.header_id, connection_state |-> conn.connection_state]
state_message(self) == [header_id |-> self.state.header_id]
visualization_message(self) == [header_id |-> self.visualization.header_id]

(* ---------------- topics (mqtt_utils.rs, utils.rs) ---------------- *)
VdaInterface == "uagv"
VdaVersion == "v2"
Manufacturer == "TEST"
BaseSerialNumber == "AGV"

generate_vda_mqtt_base_topic(vda_interface, vda_version, manufacturer, serial_number) ==
  vda_interface \o "/" \o vda_version \o "/" \o manufacturer \o "/" \o serial_number

(* get_topic_type splitting at the first '/' *)
get_topic_type_split_once(path) ==
  LET slashes == {i \in 1..Len(path) : SubSeq(path, i, i) = "/"}
  IN  IF slashes = {} THEN path
      ELSE LET first == CHOOSE i \in slashes : \A j \in slashes : i <= j
           IN  SubSeq(path, first + 1, Len(path))

(* path.rsplit_once('/'): the characters after the last '/', the whole path
   when it has none *)
get_topic_type(path) ==
  LET slashes == {i \in 1..Len(path) : SubSeq(path, i, i) = "/"}
  IN  IF slashes = {} THEN path
      ELSE LET last == CHOOSE i \in slashes : \A j \in slashes : j <= i
           IN  SubSeq(path, last + 1, Len(path))

(* the five topics of a vehicle *)
Topics(serial_number) ==
  LET base_topic == generate_vda_mqtt_base_topic(VdaInterface, VdaVersion,
                                                 Manufacturer, serial_number)
  IN  [connection |-> base_topic \o "/connection",
       state |-> base_topic \o "/state",
       visualization |-> base_topic \o "/visualization",
       order |-> base_topic \o "/order",
       instant_actions |-> base_topic \o "/instantActions"]

(* the topics subscribe_vda_messages subscribes to *)
SubscribedTopics(serial_number) ==
  {Topics(serial_number).order, Topics(serial_number).instant_actions}

(* ---------------- the subscriber's handlers (mqtt_handler.rs) -------- *)
(* a payload is the JSON text of an Order, of an InstantActions, or text
   that is neither *)
OrderJson(order_request) == [json |-> "Order", value |-> order_request]
InstantActionsJson(request) == [json |-> "InstantActions", value |-> request]
Malformed == [json |-> "Malformed", value |-> << >>]

(* serde_json::from_str::<Order> and ::<InstantActions>: Ok(value) only for
   the JSON of that type *)
from_str_order(payload) ==
  IF payload.json = "Order" THEN Some(payload.value) ELSE None
from_str_instant_actions(payload) ==
  IF payload.json = "InstantActions" THEN Some(payload.value) ELSE None

Message(topic, payload) == [topic |-> topic, payload |-> payload]

handle_order_message(self, payload) ==
  LET decoded == from_str_order(payload)
  IN  IF IsSome(decoded) THEN process_order(self, Unwrap(decoded)).self
      ELSE self

(* handle_instant_actions_message taking an undecodable payload for a
   message without actions *)
handle_instant_actions_message_lenient(self, payload) ==
  LET decoded == from_str_instant_actions(payload)
  IN  IF IsSome(decoded) THEN accept_instant_actions(self, Unwrap(decoded))
      ELSE accept_instant_actions(self, InstantActions(<< >>))

handle_instant_actions_message(self, payload) ==
  LET decoded == from_str_instant_actions(payload)
  IN  IF IsSome(decoded) THEN accept_instant_actions(self, Unwrap(decoded))
      ELSE self

handle_incoming_message(self, msg) ==
  LET topic_type == get_topic_type(msg.topic)
  IN  CASE topic_type = "order" -> handle_order_message(self, msg.payload)
        [] topic_type = "instantActions" ->
             handle_instant_actions_message(self, msg.payload)
        [] OTHER -> self

(* the handler of msg reaches simulator.lock() *)
LocksSimulator(msg) ==
  LET topic_type == get_topic_type(msg.topic)
  IN  \/ topic_type = "order" /\ IsSome(from_str_order(msg.payload))
      \/ topic_type = "instantActions"
           /\ IsSome(from_str_instant_actions(msg.payload))

(* ---------------- the supervisor (main.rs) ---------------- *)
(* spawn_vehicle_simulator leaving the configured serial number as it is *)
vehicle_serial_number_shared(serial_number, robot_index) == serial_number

(* spawn_vehicle_simulator: the serial number of the robot with robot_index *)
vehicle_serial_number(serial_number, robot_index) ==
  serial_number \o ToString(robot_index + 1)

(* ---------------- the engine as a state machine ---------------- *)
Self == [state |-> state, visualization |-> visualization, order |-> order,
         instant_actions |-> instant_actions,
         action_start_time |-> action_start_time]

Store(self) ==
  /\ state' = self.state
  /\ visualization' = self.visualization
  /\ order' = self.order
  /\ instant_actions' = self.instant_actions
  /\ action_start_time' = self.action_start_time

create_initial_state(agv_position) ==
  [header_id |-> 0, order_id |-> "", order_update_id |-> 0,
   last_node_id |-> "", last_node_sequence_id |-> 0,
   node_states |-> << >>, edge_states |-> << >>, action_states |-> << >>,
   agv_position |-> Some(agv_position)]

(* create_initial_visualization leaving agv_position unset *)
create_initial_visualization_unset(agv_position) ==
  [header_id |-> 0, agv_position |-> None]

create_initial_visualization(agv_position) ==
  [header_id |-> 0, agv_position |-> Some(agv_position)]

(* VehicleSimulator::new for the x drawn *)
new(random_x) ==
  LET agv_position == AgvPosition(random_x, 0, 0, FALSE, ConfigMapId)
  IN  [state |-> create_initial_state(agv_position),
       visualization |-> create_initial_visualization(agv_position),
       order |-> None, instant_actions |-> None, action_start_time |-> None]

(* one vehicle after VehicleSimulator::new, its two tasks spawned and not
   yet run *)
VehicleInit ==
  /\ \E random_x \in InitXs :
       /\ state = new(random_x).state
       /\ visualization = new(random_x).visualization
  /\ order = None
  /\ instant_actions = None
  /\ action_start_time = None
  /\ now = 0
  /\ connection = create_initial_connection
  /\ published = [connection |-> << >>, state |-> << >>, visualization |-> << >>]
  /\ lock = "free"
  /\ pub_pc = "publish_connection"
  /\ state_counter = 0
  /\ visualization_counter = 0
  /\ sub_pc = "next"
  /\ incoming = None

Init ==
  /\ VehicleInit
  /\ fleet = << >>

(* action_id is unique (VDA 5050): a message reuses no action_id that an
   ActionState of the engine still carries *)
FreshActionIds(msg) ==
  \A i \in 1..Len(msg.actions) : \A j \in 1..Len(state.action_states) :
    msg.actions[i].action_id # state.action_states[j].action_id

AcceptInstantActions ==
  \E msg \in InstantActionsMessages :
    /\ FreshActionIds(msg)
    /\ Store(accept_instant_actions(Self, msg))
    /\ UNCHANGED <<now, adapter, fleet>>

ProcessOrder ==
  \E order_request \in Orders :
    /\ Store(process_order(Self, order_request).self)
    /\ UNCHANGED <<now, adapter, fleet>>

UpdateState ==
  /\ Store(update_state(Self, now))
  /\ UNCHANGED <<now, adapter, fleet>>

(* the wall clock (chrono::Utc::now().timestamp()) advances by a second *)
ClockSecond ==
  /\ now < MaxTime
  /\ now' = now + 1
  /\ UNCHANGED <<engine, adapter, fleet>>

Next == AcceptInstantActions \/ ProcessOrder \/ UpdateState \/ ClockSecond

Spec == Init /\ [][Next]_vars

(* ======================= properties ======================= *)
Accepted(order_request) == process_order(Self, order_request).log = AcceptLog
Rejected(order_request) == process_order(Self, order_request).log \in RejectLogs
After(order_request) == process_order(Self, order_request).self

(* <<i, k>> for the k-th action of the i-th node (or edge) *)
AllActions(items) ==
  UNION {{<<i, k>> : k \in 1..Len(items[i].actions)} : i \in 1..Len(items)}

(* C1: whenever process_order accepts an order (new-order or update path),
   afterwards state.order_id and state.order_update_id are the order's,
   node_states and edge_states are the order's nodes and edges in order, and
   action_states holds exactly one WAITING ActionState per node action and
   per edge action of the order and nothing else. *)
C1_AcceptProjectsOrder ==
  \A o \in Orders :
    Accepted(o) =>
      LET st == After(o).state
      IN  /\ st.order_id = o.order_id
          /\ st.order_update_id = o.order_update_id
          /\ Len(st.node_states) = Len(o.nodes)
          /\ \A i \in 1..Len(o.nodes) :
               /\ st.node_states[i].node_id = o.nodes[i].node_id
               /\ st.node_states[i].sequence_id = o.nodes[i].sequence_id
               /\ st.node_states[i].released = o.nodes[i].released
               /\ st.node_states[i].node_position = o.nodes[i].node_position
          /\ Len(st.edge_states) = Len(o.edges)
          /\ \A i \in 1..Len(o.edges) :
               /\ st.edge_states[i].edge_id = o.edges[i].edge_id
               /\ st.edge_states[i].sequence_id = o.edges[i].sequence_id
               /\ st.edge_states[i].released = o.edges[i].released
          /\ Len(st.action_states) =
               Cardinality(AllActions(o.nodes)) + Cardinality(AllActions(o.edges))
          /\ \A i \in 1..Len(st.action_states) :
               st.action_states[i].action_status = Waiting
          /\ \A p \in AllActions(o.nodes) :
               Cardinality({i \in 1..Len(st.action_states) :
                  st.action_states[i].action_id = o.nodes[p[1]].actions[p[2]].action_id}) = 1
          /\ \A p \in AllActions(o.edges) :
               Cardinality({i \in 1..Len(st.action_states) :
                  st.action_states[i].action_id = o.edges[p[1]].actions[p[2]].action_id}) = 1

(* an update (update id 1) of a three-node order has just been accepted while
   a processed instant-action message is stored: its ActionStates are gone *)
C1_Witness ==
  /\ IsSome(order) /\ IsSome(instant_actions)
  /\ Len(Unwrap(instant_actions).actions) = 2
  /\ state.order_update_id = 1
  /\ Len(Unwrap(order).nodes) = 3
  /\ Len(state.node_states) = 3 /\ Len(state.edge_states) = 2
  /\ Len(state.action_states) = 1
  /\ state.action_states[1] = ActionState("a2", Waiting, Some("drop"))

(* C2: every process_order call that rejects the order leaves state, the
   stored order, the stored instant_actions, action_start_time and the
   visualization buffer as they were. *)
C2_RejectChangesNothing ==
  \A o \in Orders : Rejected(o) => After(o) = Self

(* an engine with ActionStates and a running order (vehicle away from the
   first released node) in which one order is rejected by the proximity
   check, another for its update id *)
C2_Witness ==
  /\ state.action_states # << >> /\ state.node_states # << >>
  /\ \E o \in Orders : process_order(Self, o).log = RejectProximity
  /\ \E o \in Orders : process_order(Self, o).log = RejectUpdateId

(* C3: an order with the engine's order_id is accepted only with a strictly
   greater order_update_id; with an equal or lower one it is rejected and
   the engine is unchanged. *)
C3_SameIdNeedsGreaterUpdateId ==
  \A o \in Orders :
    o.order_id = state.order_id =>
      /\ Accepted(o) => o.order_update_id > state.order_update_id
      /\ o.order_update_id <= state.order_update_id =>
           /\ process_order(Self, o).log = RejectUpdateId
           /\ After(o) = Self

(* the engine runs order o1 at update id 1; the same order arrives with
   update id 1 and with update id 0 *)
C3_Witness ==
  /\ state.order_id = "o1" /\ state.order_update_id = 1
  /\ state.node_states # << >>
  /\ \E o \in Orders : o.order_id = "o1" /\ o.order_update_id = 1
  /\ \E o \in Orders : o.order_id = "o1" /\ o.order_update_id = 0

(* C4 as stated: every order whose order_update_id is not greater than
   state.order_update_id is a no-op, whatever its order_id. *)
C4_AnyIdLowUpdateIdIsNoOp ==
  \A o \in Orders :
    o.order_update_id <= state.order_update_id => After(o) = Self

(* C4 amended: an order with the engine's current order_id whose
   order_update_id is not greater than state.order_update_id is a no-op. *)
C4_SameIdLowUpdateIdIsNoOp ==
  \A o \in Orders :
    (o.order_id = state.order_id /\ o.order_update_id <= state.order_update_id)
      => After(o) = Self

(* a finished order at update id 1: an order with the same id and update id 0
   is a no-op, one with the other id and update id 0 is accepted *)
C4_Witness ==
  /\ state.order_update_id = 1 /\ IsSome(order)
  /\ is_vehicle_ready_for_new_order(Self)
  /\ \E o \in Orders : /\ o.order_id = state.order_id /\ o.order_update_id = 0
                       /\ Rejected(o)
  /\ \E o \in Orders : /\ o.order_id # state.order_id /\ o.order_update_id = 0
                       /\ Accepted(o)

(* the engine has executed no initPosition and stores no order *)
NotInitialized ==
  /\ order = None
  /\ ~Unwrap(state.agv_position).position_initialized

(* C5: on an engine whose position is not initialized (no initPosition
   executed), process_order leaves state as it is for every order: order_id
   stays "", order_update_id stays 0, node_states and edge_states stay
   empty. *)
C5_FreshEngineIgnoresOrders ==
  NotInitialized => \A o \in Orders : After(o).state = state

NotReady ==
  \/ state.node_states # << >>
  \/ state.edge_states # << >>
  \/ ~Unwrap(state.agv_position).position_initialized

(* C6: an order with another order_id is never accepted while node_states
   or edge_states is non-empty or the position is not initialized; it is
   rejected and node_states, edge_states and action_states are untouched. *)
C6_NewOrderNeedsReadyVehicle ==
  \A o \in Orders :
    (o.order_id # state.order_id /\ NotReady) =>
      /\ Rejected(o)
      /\ After(o).state.node_states = state.node_states
      /\ After(o).state.edge_states = state.edge_states
      /\ After(o).state.action_states = state.action_states

(* an initialized vehicle whose node_states are used up while an EdgeState
   is left: an order with another id is turned down for the active states *)
C6_Witness ==
  /\ state.node_states = << >> /\ state.edge_states # << >>
  /\ Unwrap(state.agv_position).position_initialized
  /\ \E o \in Orders : /\ o.order_id # state.order_id
                       /\ process_order(Self, o).log = RejectActive

HasInitPosition(msg) ==
  \E k \in 1..Len(msg.actions) : msg.actions[k].action_type = "initPosition"

(* now - action_start_time < action_time *)
ActionInProgress ==
  /\ action_start_time # None
  /\ now - Unwrap(action_start_time) < ActionTime

(* one tick right after accept_instant_actions(msg) *)
AcceptedThenTicked(msg) == update_state(accept_instant_actions(Self, msg), now)

(* C7: is_vehicle_ready_for_new_order is true exactly when node_states and
   edge_states are empty and agv_position is present with
   position_initialized; it is false on a fresh engine and true once an
   initPosition instant action was accepted and processed with no order
   active. *)
C7_ReadyGate ==
  /\ is_vehicle_ready_for_new_order(Self) <=>
       (/\ Len(state.node_states) = 0 /\ Len(state.edge_states) = 0
        /\ IsSome(state.agv_position)
        /\ Unwrap(state.agv_position).position_initialized)
  /\ (order = None /\ instant_actions = None) => ~is_vehicle_ready_for_new_order(Self)
  /\ \A msg \in InstantActionsMessages :
       (/\ HasInitPosition(msg) /\ FreshActionIds(msg) /\ ~ActionInProgress
        /\ state.node_states = << >> /\ state.edge_states = << >>)
         => is_vehicle_ready_for_new_order(AcceptedThenTicked(msg))

(* no order was ever stored, the initPosition of the stored message is
   FINISHED and the vehicle is ready *)
C7_Witness ==
  /\ order = None /\ IsSome(instant_actions)
  /\ \E i \in 1..Len(state.action_states) :
       /\ state.action_states[i].action_type = Some("initPosition")
       /\ state.action_states[i].action_status = Finished
  /\ is_vehicle_ready_for_new_order(Self)

(* C8: accept_instant_actions stores the new message and appends, in message
   order, one WAITING ActionState with the action's action_id and
   action_type per action; the ActionStates already present are kept and
   nothing else in the engine changes. *)
C8_AcceptInstantActionsAppends ==
  \A msg \in InstantActionsMessages :
    LET after == accept_instant_actions(Self, msg)
        old == Len(state.action_states)
    IN  /\ after.instant_actions = Some(msg)
        /\ Len(after.state.action_states) = old + Len(msg.actions)
        /\ \A i \in 1..old : after.state.action_states[i] = state.action_states[i]
        /\ \A k \in 1..Len(msg.actions) :
             /\ after.state.action_states[old + k].action_id = msg.actions[k].action_id
             /\ after.state.action_states[old + k].action_status = Waiting
             /\ after.state.action_states[old + k].action_type =
                  Some(msg.actions[k].action_type)
        /\ [after.state EXCEPT !.action_states = << >>] =
             [state EXCEPT !.action_states = << >>]
        /\ after.visualization = visualization
        /\ after.order = order
        /\ after.action_start_time = action_start_time

(* the two-action message has just been accepted behind the three
   ActionStates of a running order *)
C8_Witness ==
  /\ Len(state.action_states) = 5
  /\ state.action_states[1].action_id = "a1"
  /\ IsSome(instant_actions) /\ Len(Unwrap(instant_actions).actions) = 2
  /\ \A k \in 1..2 :
       /\ state.action_states[3 + k].action_id =
            Unwrap(instant_actions).actions[k].action_id
       /\ state.action_states[3 + k].action_status = Waiting

(* what the initPosition actions of the messages supply: ia1 gives every
   parameter with its type; ia2 gives x as the string "2", no y, a theta
   that is no number and an integer mapId, which read as 2.0, 0.0, 0.0, "" *)
Supplied(action_id) ==
  CASE action_id = "ia1" ->
         [pos |-> AgvPosition(0, 0, 1570, TRUE, "m1"), last_node_id |-> "n1"]
    [] action_id = "ia2" ->
         [pos |-> AgvPosition(2000, 0, 0, TRUE, ""), last_node_id |-> "n2"]

InitPositionApplied(after, action) ==
  /\ \E i \in 1..Len(after.state.action_states) :
       /\ after.state.action_states[i].action_id = action.action_id
       /\ after.state.action_states[i].action_status = Finished
  /\ after.state.agv_position = Some(Supplied(action.action_id).pos)
  /\ after.state.last_node_id = Supplied(action.action_id).last_node_id
  /\ after.visualization.agv_position = after.state.agv_position

(* C9 as stated, on a vehicle that an earlier initPosition has placed (so
   that every order it runs was accepted by a ready vehicle): after a
   message with an initPosition action is accepted and one tick with no
   action in progress has run, that ActionState is FINISHED, agv_position
   holds the supplied x, y, theta and mapId with position_initialized,
   last_node_id is the supplied lastNodeId and the visualization has the
   same agv_position. *)
C9_TickAppliesInitPosition ==
  \A msg \in InstantActionsMessages : \A k \in 1..Len(msg.actions) :
    (/\ msg.actions[k].action_type = "initPosition"
     /\ FreshActionIds(msg) /\ ~ActionInProgress
     /\ Unwrap(state.agv_position).position_initialized)
      => InitPositionApplied(AcceptedThenTicked(msg), msg.actions[k])

(* C9 amended: the same, for a tick at which fewer than two NodeStates
   remain, so that its motion step does not drive on from the new position. *)
C9_TickAppliesInitPositionAtRest ==
  \A msg \in InstantActionsMessages : \A k \in 1..Len(msg.actions) :
    (/\ msg.actions[k].action_type = "initPosition"
     /\ FreshActionIds(msg) /\ ~ActionInProgress
     /\ Len(state.node_states) < 2)
      => InitPositionApplied(AcceptedThenTicked(msg), msg.actions[k])

(* the tick after the message <<honk, ia2>>: ia2 is FINISHED and the
   vehicle stands where ia2 put it, in state and in the visualization *)
C9_Witness ==
  /\ IsSome(instant_actions) /\ Len(Unwrap(instant_actions).actions) = 2
  /\ Len(state.node_states) < 2
  /\ InitPositionApplied(Self, Unwrap(instant_actions).actions[2])

(* C10: when an action is in progress at the start of a tick, update_state
   changes nothing: no motion, no instant action, no node action. *)
C10_ActionInProgressBlocksTick ==
  ActionInProgress => update_state(Self, now) = Self

(* an action is in progress while an instant action is WAITING and the next
   node of the order is released and positioned *)
C10_Witness ==
  /\ ActionInProgress
  /\ \E i \in 1..Len(state.action_states) :
       /\ state.action_states[i].action_type = Some("initPosition")
       /\ state.action_states[i].action_status = Waiting
  /\ Len(state.node_states) >= 2
  /\ IsSome(get_next_node(Self))
  /\ Unwrap(get_next_node(Self)).released
  /\ IsSome(Unwrap(get_next_node(Self)).node_position)

(* ================= the two tasks of one vehicle ================= *)
(* mqtt_handler.rs: publish_vda_messages and subscribe_vda_messages share
   the engine behind a tokio Mutex.  A step of a task is its code up to the
   next await that can suspend it; the guard of simulator.lock().await lives
   to the end of its statement. *)
TickTime == 50

(* the state test of the loop with >= *)
StateDue_ge(counter) == counter * TickTime >= 1000 \div StateFrequency
StateDue(counter) == counter * TickTime > 1000 \div StateFrequency
VisualizationDue(counter) == counter * TickTime > 1000 \div VisualizationFrequency

(* mqtt::Result of a publish or a reconnect *)
Results == {"Ok", "Err"}

SerialNumber == vehicle_serial_number(BaseSerialNumber, 0)

(* what the subscriber's stream may deliver *)
InboundTopics ==
  {Topics(SerialNumber).order, Topics(SerialNumber).instant_actions,
   Topics(SerialNumber).state, "order", Topics(SerialNumber).order \o "/"}
InboundPayloads ==
  {OrderJson(Order("o1", 0, ShapeTwo(0).nodes, ShapeTwo(0).edges)),
   InstantActionsJson(InstantActions(<<initA>>)),
   Malformed}
InboundMessages ==
  {Message(topic, payload) : topic \in InboundTopics, payload \in InboundPayloads}

(* publish_connection: simulator.lock(), the first publish is under way *)
PublishConnectionLock ==
  /\ pub_pc = "publish_connection"
  /\ lock = "free"
  /\ lock' = "publisher"
  /\ pub_pc' = "connection_broken"
  /\ UNCHANGED <<engine, now, connection, published, state_counter,
                 visualization_counter, sub_pc, incoming, fleet>>

(* PublishConnectionBroken dropping the guard before the 1 s sleep *)
PublishConnectionBroken_releasing ==
  /\ pub_pc = "connection_broken"
  /\ \E result \in Results :
       IF result = "Ok"
       THEN /\ published' = [published EXCEPT
                               !.connection = Append(@, connection_message(connection))]
            /\ pub_pc' = "connection_sleep"
       ELSE /\ pub_pc' = "panicked"
            /\ UNCHANGED published
  /\ lock' = "free"
  /\ UNCHANGED <<engine, now, connection, state_counter,
                 visualization_counter, sub_pc, incoming, fleet>>

(* the first publish returns: the 1 s sleep begins, or unwrap() panics and
   the guard is dropped *)
PublishConnectionBroken ==
  /\ pub_pc = "connection_broken"
  /\ \E result \in Results :
       IF result = "Ok"
       THEN /\ published' = [published EXCEPT
                               !.connection = Append(@, connection_message(connection))]
            /\ pub_pc' = "connection_sleep"
            /\ UNCHANGED lock
       ELSE /\ pub_pc' = "panicked"
            /\ lock' = "free"
            /\ UNCHANGED published
  /\ UNCHANGED <<engine, now, connection, state_counter,
                 visualization_counter, sub_pc, incoming, fleet>>

(* after the sleep: header_id += 1, ONLINE, the second publish is under way *)
PublishConnectionSleep ==
  /\ pub_pc = "connection_sleep"
  /\ connection' = connection_online(connection)
  /\ pub_pc' = "connection_online"
  /\ UNCHANGED <<engine, now, published, lock, state_counter,
                 visualization_counter, sub_pc, incoming, fleet>>

PublishConnectionOnline ==
  /\ pub_pc = "connection_online"
  /\ \E result \in Results :
       IF result = "Ok"
       THEN /\ published' = [published EXCEPT
                               !.connection = Append(@, connection_message(connection))]
            /\ pub_pc' = "update_state"
       ELSE /\ pub_pc' = "panicked"
            /\ UNCHANGED published
  /\ lock' = "free"
  /\ UNCHANGED <<engine, now, connection, state_counter,
                 visualization_counter, sub_pc, incoming, fleet>>

(* visualization_counter += 1 and its test, which follow the state part of
   the loop body; with nothing to publish the loop sleeps and starts over *)
VisualizationPart ==
  IF VisualizationDue(visualization_counter + 1)
  THEN /\ visualization_counter' = 0
       /\ pub_pc' = "publish_visualization"
  ELSE /\ visualization_counter' = visualization_counter + 1
       /\ pub_pc' = "update_state"

(* the head of the loop: simulator.lock().await.update_state(), then
   state_counter += 1 and its test *)
PublisherUpdateState ==
  /\ pub_pc = "update_state"
  /\ lock = "free"
  /\ Store(update_state(Self, now))
  /\ IF StateDue(state_counter + 1)
     THEN /\ state_counter' = 0
          /\ pub_pc' = "publish_state"
          /\ UNCHANGED visualization_counter
     ELSE /\ state_counter' = state_counter + 1
          /\ VisualizationPart
  /\ UNCHANGED <<now, connection, published, lock, sub_pc, incoming, fleet>>

(* publish_state: simulator.lock(), header_id += 1, the publish is under way *)
PublishStateLock ==
  /\ pub_pc = "publish_state"
  /\ lock = "free"
  /\ state.header_id < MaxHeaderId
  /\ Store(publish_state(Self))
  /\ lock' = "publisher"
  /\ pub_pc' = "state_sent"
  /\ UNCHANGED <<now, connection, published, state_counter,
                 visualization_counter, sub_pc, incoming, fleet>>

PublishStateSent ==
  /\ pub_pc = "state_sent"
  /\ \E result \in Results :
       IF result = "Ok"
       THEN /\ published' = [published EXCEPT
                               !.state = Append(@, state_message(Self))]
            /\ VisualizationPart
       ELSE /\ pub_pc' = "panicked"
            /\ UNCHANGED <<published, visualization_counter>>
  /\ lock' = "free"
  /\ UNCHANGED <<engine, now, connection, state_counter, sub_pc, incoming,
                 fleet>>

PublishVisualizationLock ==
  /\ pub_pc = "publish_visualization"
  /\ lock = "free"
  /\ visualization.header_id < MaxHeaderId
  /\ Store(publish_visualization(Self))
  /\ lock' = "publisher"
  /\ pub_pc' = "visualization_sent"
  /\ UNCHANGED <<now, connection, published, state_counter,
                 visualization_counter, sub_pc, incoming, fleet>>

PublishVisualizationSent ==
  /\ pub_pc = "visualization_sent"
  /\ \E result \in Results :
       IF result = "Ok"
       THEN /\ published' = [published EXCEPT
                               !.visualization = Append(@, visualization_message(Self))]
            /\ pub_pc' = "update_state"
       ELSE /\ pub_pc' = "panicked"
            /\ UNCHANGED published
  /\ lock' = "free"
  /\ UNCHANGED <<engine, now, connection, state_counter,
                 visualization_counter, sub_pc, incoming, fleet>>

(* message_stream.next() yields Some(msg) *)
SubscriberNext ==
  /\ sub_pc = "next"
  /\ \E msg \in InboundMessages :
       /\ IsSome(from_str_instant_actions(msg.payload))
            => FreshActionIds(Unwrap(from_str_instant_actions(msg.payload)))
       /\ incoming' = Some(msg)
  /\ sub_pc' = "handle"
  /\ UNCHANGED <<engine, now, connection, published, lock, pub_pc,
                 state_counter, visualization_counter, fleet>>

(* message_stream.next() yields None *)
SubscriberConnectionLost ==
  /\ sub_pc = "next"
  /\ sub_pc' = "reconnect"
  /\ UNCHANGED <<engine, now, connection, published, lock, pub_pc,
                 state_counter, visualization_counter, incoming, fleet>>

(* handle_connection_loss publishing the state again once reconnected *)
HandleConnectionLoss_republishing ==
  /\ sub_pc = "reconnect"
  /\ \E result \in Results :
       IF result = "Ok"
       THEN /\ sub_pc' = "next"
            /\ published' = [published EXCEPT
                               !.state = Append(@, state_message(Self))]
       ELSE /\ sub_pc' = "reconnect_sleep"
            /\ UNCHANGED published
  /\ UNCHANGED <<engine, now, connection, lock, pub_pc,
                 state_counter, visualization_counter, incoming, fleet>>

(* handle_connection_loss: mqtt_client.reconnect().await returns; Ok ends
   the loop and the function, Err starts the 1 s sleep *)
HandleConnectionLoss ==
  /\ sub_pc = "reconnect"
  /\ \E result \in Results :
       sub_pc' = IF result = "Ok" THEN "next" ELSE "reconnect_sleep"
  /\ UNCHANGED <<engine, now, connection, published, lock, pub_pc,
                 state_counter, visualization_counter, incoming, fleet>>

(* handle_connection_loss: the 1 s sleep is over, the loop tries again *)
ReconnectSleep ==
  /\ sub_pc = "reconnect_sleep"
  /\ sub_pc' = "reconnect"
  /\ UNCHANGED <<engine, now, connection, published, lock, pub_pc,
                 state_counter, visualization_counter, incoming, fleet>>

(* handle_incoming_message returning without simulator.lock(): unknown
   topic type or a payload that does not decode *)
HandleWithoutLock ==
  /\ sub_pc = "handle"
  /\ ~LocksSimulator(Unwrap(incoming))
  /\ Store(handle_incoming_message(Self, Unwrap(incoming)))
  /\ incoming' = None
  /\ sub_pc' = "next"
  /\ UNCHANGED <<now, connection, published, lock, pub_pc, state_counter,
                 visualization_counter, fleet>>

(* HandleLock going ahead whoever holds the engine *)
HandleLock_unguarded ==
  /\ sub_pc = "handle"
  /\ LocksSimulator(Unwrap(incoming))
  /\ lock' = "subscriber"
  /\ sub_pc' = "locked"
  /\ UNCHANGED <<engine, now, connection, published, pub_pc, state_counter,
                 visualization_counter, incoming, fleet>>

(* simulator.lock().await of handle_order_message and
   handle_instant_actions_message *)
HandleLock ==
  /\ sub_pc = "handle"
  /\ LocksSimulator(Unwrap(incoming))
  /\ lock = "free"
  /\ lock' = "subscriber"
  /\ sub_pc' = "locked"
  /\ UNCHANGED <<engine, now, connection, published, pub_pc, state_counter,
                 visualization_counter, incoming, fleet>>

(* process_order or accept_instant_actions under the lock; the guard drops *)
HandleLocked ==
  /\ sub_pc = "locked"
  /\ Store(handle_incoming_message(Self, Unwrap(incoming)))
  /\ incoming' = None
  /\ lock' = "free"
  /\ sub_pc' = "next"
  /\ UNCHANGED <<now, connection, published, pub_pc, state_counter,
                 visualization_counter, fleet>>

AdapterNext ==
  \/ PublishConnectionLock \/ PublishConnectionBroken
  \/ PublishConnectionSleep \/ PublishConnectionOnline
  \/ PublisherUpdateState
  \/ PublishStateLock \/ PublishStateSent
  \/ PublishVisualizationLock \/ PublishVisualizationSent
  \/ SubscriberNext \/ SubscriberConnectionLost \/ HandleConnectionLoss
  \/ ReconnectSleep
  \/ HandleWithoutLock \/ HandleLock \/ HandleLocked
  \/ ClockSecond

AdapterSpec == Init /\ [][AdapterNext]_vars

(* ======================= properties, continued ======================= *)
PositionInitialized(self) ==
  /\ IsSome(self.state.agv_position)
  /\ Unwrap(self.state.agv_position).position_initialized

(* C11: position_initialized only goes from false to true: from an engine
   whose position is initialized, neither accept_instant_actions, nor
   process_order, nor a tick, nor a publication leads to one whose position
   is not. *)
C11_PositionInitializedStays ==
  PositionInitialized(Self) =>
    /\ \A msg \in InstantActionsMessages :
         PositionInitialized(accept_instant_actions(Self, msg))
    /\ \A o \in Orders : PositionInitialized(After(o))
    /\ PositionInitialized(update_state(Self, now))
    /\ PositionInitialized(publish_state(Self))
    /\ PositionInitialized(publish_visualization(Self))

(* an initialized vehicle under way in its order, which the next tick moves *)
C11_Witness ==
  /\ PositionInitialized(Self)
  /\ IsSome(order) /\ Len(state.node_states) >= 2
  /\ update_state(Self, now).state.agv_position # state.agv_position

OutboundTopics == {"connection", "state", "visualization"}

(* the engine's header_id counter of an outbound topic *)
HeaderId(self, conn, topic) ==
  CASE topic = "connection" -> conn.header_id
    [] topic = "state" -> self.state.header_id
    [] topic = "visualization" -> self.visualization.header_id

(* C12: on each outbound topic every published message after the first
   carries the header_id of the one before it plus 1 (so the header_ids
   strictly increase), the last one published is the engine's counter or one
   behind it, and no inbound message, no tick and no publication on another
   topic changes the topic's counter. *)
C12_HeaderIdsCountUp ==
  /\ \A topic \in OutboundTopics :
       /\ \A i \in 2..Len(published[topic]) :
            published[topic][i].header_id = published[topic][i - 1].header_id + 1
       /\ published[topic] # << >> =>
            LET last == published[topic][Len(published[topic])].header_id
            IN  HeaderId(Self, connection, topic) \in {last, last + 1}
  /\ \A topic \in {"state", "visualization"} :
       /\ \A msg \in InboundMessages :
            HeaderId(handle_incoming_message(Self, msg), connection, topic)
              = HeaderId(Self, connection, topic)
       /\ HeaderId(update_state(Self, now), connection, topic)
            = HeaderId(Self, connection, topic)
  /\ publish_state(Self).visualization.header_id = visualization.header_id
  /\ publish_visualization(Self).state.header_id = state.header_id

(* two messages went out on every topic and the order arrives only now:
   the vehicle is ready and the next inbound order will be accepted *)
C12_Witness ==
  /\ \A topic \in OutboundTopics : Len(published[topic]) = 2
  /\ order = None
  /\ \E msg \in InboundMessages :
       /\ IsSome(from_str_order(msg.payload))
       /\ get_topic_type(msg.topic) = "order"
       /\ process_order(Self, msg.payload.value).log = AcceptLog

(* ================= an order driven to its end ================= *)
(* test_small_order_completion: initPosition places the vehicle, an order is
   submitted, and update_state is called again and again.  The wall clock
   matters only while an action is in progress, so that is when a second of
   it is seen to pass. *)
ShapeThree(f) ==
  [nodes |-> <<Node("n1", f, TRUE, At(0), <<pick>>),
               Node("n2", f + 2, TRUE, At(2000), <<drop>>),
               Node("n3", f + 4, TRUE, At(4000), << >>)>>,
   edges |-> <<Edge("e1", f + 1, TRUE, None, << >>),
               Edge("e2", f + 3, TRUE, None, <<blink>>)>>]
ShapeBack(f) ==
  [nodes |-> <<Node("n1", f, TRUE, At(2000), << >>),
               Node("n2", f + 1, TRUE, At(0), <<drop>>)>>,
   edges |-> <<Edge("e1", f, TRUE, None, << >>)>>]
ShapeOne(f) ==
  [nodes |-> <<Node("n1", f, TRUE, At(2000), <<pick>>)>>, edges |-> << >>]

SubmittedOrders ==
  Orders \cup {Order(oid, 0, sh.nodes, sh.edges) :
                 oid \in {"o1", "o2"},
                 sh \in {ShapeTwo(1), ShapeThree(0), ShapeThree(1),
                         ShapeBack(1), ShapeOne(0)}}

(* update id 0, every node released and positioned, one edge less than nodes *)
Drivable(order_request) ==
  /\ order_request.order_update_id = 0
  /\ \A i \in 1..Len(order_request.nodes) :
       /\ order_request.nodes[i].released
       /\ IsSome(order_request.nodes[i].node_position)
  /\ Len(order_request.edges) = Len(order_request.nodes) - 1

PlaceVehicle ==
  /\ instant_actions = None
  /\ \E msg \in InstantActionsMessages :
       /\ HasInitPosition(msg)
       /\ Store(accept_instant_actions(Self, msg))
  /\ UNCHANGED <<now, adapter, fleet>>

SubmitOrder ==
  /\ order = None
  /\ PositionInitialized(Self)
  /\ \E order_request \in SubmittedOrders :
       /\ Drivable(order_request)
       /\ Store(process_order(Self, order_request).self)
  /\ UNCHANGED <<now, adapter, fleet>>

ActionTimePasses ==
  /\ ActionInProgress
  /\ now' = now + 1
  /\ UNCHANGED <<engine, adapter, fleet>>

CompletionNext ==
  PlaceVehicle \/ SubmitOrder \/ UpdateState \/ ActionTimePasses

(* ENABLED <<UpdateState>>_vars: the tick changes the engine *)
TickChanges == update_state(Self, now) # Self

(* WF_vars(UpdateState) with its enabling condition written out: the loop
   of the test keeps calling update_state *)
TickFairness == []<>(~TickChanges) \/ []<><<UpdateState>>_vars

CompletionSpec ==
  /\ Init
  /\ [][CompletionNext]_vars
  /\ TickFairness
  /\ WF_vars(ActionTimePasses)

(* node_states and edge_states are used up and the vehicle stands within
   speed + 0.1 of the last node of the order *)
Completed ==
  /\ IsSome(order)
  /\ state.node_states = << >>
  /\ state.edge_states = << >>
  /\ LET nodes == Unwrap(order).nodes
         last == Unwrap(nodes[Len(nodes)].node_position)
         agv_position == Unwrap(state.agv_position)
     IN  DistanceLtSpeedPlus01(agv_position.x, agv_position.y, last.x, last.y)

(* C13 as stated: once initPosition has placed the vehicle and an order
   with update id 0, all nodes released and positioned and one edge less
   than nodes is accepted, repeated ticks lead to node_states and edge_states
   being empty with the vehicle close to the last node, and it stays so. *)
C13_OrderCompletes == IsSome(order) ~> []Completed

(* C13 amended: the same for an accepted order of at least two nodes. *)
C13_LongOrderCompletes ==
  (IsSome(order) /\ Len(Unwrap(order).nodes) >= 2) ~> []Completed

(* the three-node order is used up: the vehicle stands on its last node *)
C13_Witness ==
  /\ Completed
  /\ Len(Unwrap(order).nodes) = 3
  /\ Unwrap(state.agv_position).x = 4000
  /\ state.last_node_id = "n3"

(* the publisher task is inside publish_connection, publish_state or
   publish_visualization, awaiting the broker or the 1 s sleep *)
PublisherInside ==
  pub_pc \in {"connection_broken", "connection_sleep", "connection_online",
              "state_sent", "visualization_sent"}

(* the subscriber task is inside process_order or accept_instant_actions *)
SubscriberInside == sub_pc = "locked"

(* C14: the two tasks are serialized on the engine: a task is inside an
   engine operation exactly while it holds the lock, never both at once;
   while a publication of the publisher is under way no step changes the
   engine except that publication finishing, and an inbound order or
   instant-action message is applied in one step of the subscriber under
   its lock. *)
C14_EngineSerialized ==
  /\ [](/\ PublisherInside <=> lock = "publisher"
        /\ SubscriberInside <=> lock = "subscriber"
        /\ ~(PublisherInside /\ SubscriberInside))
  /\ [][/\ lock = "publisher" => engine' = engine
        /\ (lock = "subscriber" /\ engine' # engine) =>
             /\ Self' = handle_incoming_message(Self, Unwrap(incoming))
             /\ lock' = "free"]_vars

(* the publisher awaits the broker for a state message while an order that
   would be accepted waits in the subscriber for the lock *)
C14_Witness ==
  /\ pub_pc = "state_sent" /\ lock = "publisher"
  /\ sub_pc = "handle"
  /\ LocksSimulator(Unwrap(incoming))
  /\ handle_incoming_message(Self, Unwrap(incoming)) # Self
  /\ IsSome(handle_incoming_message(Self, Unwrap(incoming)).order)

(* the publisher task has not reached its loop *)
PublisherStarting ==
  pub_pc \in {"publish_connection", "connection_broken", "connection_sleep",
              "connection_online", "panicked"}

(* C15: the first message on the connection topic is CONNECTIONBROKEN with
   header_id 0, the second is ONLINE with header_id 1, and until the ONLINE
   message is published there is no state message, no visualization message
   and no tick: the publisher has not reached its loop, no ActionState has
   left WAITING and the state and visualization header_ids are still 0. *)
C15_ConnectionHandshake ==
  /\ Len(published.connection) >= 1 =>
       published.connection[1] =
         [header_id |-> 0, connection_state |-> ConnectionBroken]
  /\ Len(published.connection) >= 2 =>
       published.connection[2] = [header_id |-> 1, connection_state |-> Online]
  /\ Len(published.connection) < 2 =>
       /\ published.state = << >>
       /\ published.visualization = << >>
       /\ PublisherStarting
       /\ state.header_id = 0 /\ visualization.header_id = 0
       /\ \A i \in 1..Len(state.action_states) :
            state.action_states[i].action_status = Waiting

(* ONLINE has just been published: both connection messages are out, an
   instant action taken in before the publisher started is still WAITING and
   the first tick is next *)
C15_Witness ==
  /\ Len(published.connection) = 2
  /\ pub_pc = "update_state"
  /\ published.state = << >> /\ published.visualization = << >>
  /\ state.action_states # << >>
  /\ \A i \in 1..Len(state.action_states) :
       state.action_states[i].action_status = Waiting

(* topics with the characters after their last '/' *)
TopicCases ==
  {[path |-> "uagv/v2/TEST/AGV1/order", suffix |-> "order"],
   [path |-> "uagv/v2/TEST/AGV1/instantActions", suffix |-> "instantActions"],
   [path |-> "uagv/v2/TEST/AGV1/state", suffix |-> "state"],
   [path |-> "uagv/v2/TEST/AGV1/order/", suffix |-> ""]}

(* C16: an inbound message is dispatched by the characters after the last
   '/' of its topic: order leads to process_order on the decoded Order,
   instantActions to accept_instant_actions on the decoded InstantActions,
   and with any other suffix the engine is left as it is and the subscriber
   goes on to its next message. *)
C16_DispatchByTopicType ==
  /\ [](\A c \in TopicCases : \A payload \in InboundPayloads :
          LET after == handle_incoming_message(Self, Message(c.path, payload))
          IN  /\ c.path \in InboundTopics
              /\ get_topic_type(c.path) = c.suffix
              /\ (c.suffix = "order" /\ payload.json = "Order") =>
                   after = process_order(Self, payload.value).self
              /\ (c.suffix = "instantActions" /\ payload.json = "InstantActions") =>
                   after = accept_instant_actions(Self, payload.value)
              /\ c.suffix \notin {"order", "instantActions"} => after = Self)
  /\ [][\A c \in TopicCases :
          (/\ sub_pc = "handle" /\ sub_pc' # sub_pc
           /\ Unwrap(incoming).topic = c.path
           /\ c.suffix \notin {"order", "instantActions"})
            => (sub_pc' = "next" /\ engine' = engine)]_vars

(* a ready vehicle; the subscriber holds a message whose payload is an order
   that process_order would accept, on a topic ending in state *)
C16_Witness ==
  /\ sub_pc = "handle"
  /\ Unwrap(incoming).topic = "uagv/v2/TEST/AGV1/state"
  /\ Unwrap(incoming).payload.json = "Order"
  /\ process_order(Self, Unwrap(incoming).payload.value).log = AcceptLog

(* msg is on the order or instantActions topic and its payload does not
   decode to the type of that topic *)
Undecodable(msg) ==
  \/ /\ get_topic_type(msg.topic) = "order"
     /\ ~IsSome(from_str_order(msg.payload))
  \/ /\ get_topic_type(msg.topic) = "instantActions"
     /\ ~IsSome(from_str_instant_actions(msg.payload))

(* C17: a payload on the order or instantActions topic that does not decode
   is dropped: its handler leaves the engine as it is, and the step of the
   subscriber that handles it takes no lock and ends waiting for the next
   message with nothing but the dropped message gone, so that the next
   well-formed message is handled as if the bad one had never come. *)
C17_DecodeErrorIsDropped ==
  /\ [](\A msg \in InboundMessages :
          Undecodable(msg) => handle_incoming_message(Self, msg) = Self)
  /\ [][(/\ sub_pc = "handle" /\ sub_pc' # sub_pc
         /\ Undecodable(Unwrap(incoming)))
          => (/\ sub_pc' = "next" /\ incoming' = None
              /\ UNCHANGED <<engine, now, connection, published, lock, pub_pc,
                             state_counter, visualization_counter>>)]_vars
  /\ [](sub_pc \in {"next", "handle", "locked", "reconnect", "reconnect_sleep"})

(* the vehicle drives an order and the subscriber holds a payload on the
   instantActions topic that is no InstantActions *)
C17_Witness ==
  /\ sub_pc = "handle"
  /\ Undecodable(Unwrap(incoming))
  /\ get_topic_type(Unwrap(incoming).topic) = "instantActions"
  /\ IsSome(order) /\ state.node_states # << >>
  /\ IsSome(instant_actions)

(* C18: an instant action whose action_type is not initPosition has its
   ActionState WAITING when accepted and FINISHED after the tick that
   processes it, and run_action on it changes nothing in the engine but the
   status of that ActionState. *)
C18_UnknownActionOnlyFinishes ==
  \A msg \in InstantActionsMessages : \A k \in 1..Len(msg.actions) :
    (/\ msg.actions[k].action_type # "initPosition"
     /\ FreshActionIds(msg) /\ ~ActionInProgress)
      => LET accepted == accept_instant_actions(Self, msg)
             i == find_action_state_index(accepted, msg.actions[k].action_id)
             ran == run_action(accepted, msg.actions[k])
             ticked == AcceptedThenTicked(msg)
         IN  /\ i # 0
             /\ accepted.state.action_states[i].action_status = Waiting
             /\ ran = [accepted EXCEPT
                         !.state.action_states[i].action_status = Finished]
             /\ ticked.state.action_states[i].action_id = msg.actions[k].action_id
             /\ ticked.state.action_states[i].action_status = Finished

(* a tick has processed the honk action while an order was under way: its
   ActionState is FINISHED behind those of the order *)
C18_Witness ==
  /\ IsSome(order) /\ state.node_states # << >>
  /\ \E i \in 2..Len(state.action_states) :
       /\ state.action_states[i].action_type = Some("honk")
       /\ state.action_states[i].action_status = Finished

(* ================= the supervisor's vehicles ================= *)
(* main.rs: one VehicleSimulator with its own Arc<Mutex<..>> and its own two
   tasks per robot_index.  The broker hands a message to every subscriber of
   its topic. *)
RobotIndexes == 0..(RobotCount - 1)

FleetInit ==
  /\ VehicleInit
  /\ \E random_x \in [RobotIndexes -> InitXs] :
       fleet = [robot_index \in RobotIndexes |->
                  [serial_number |->
                     vehicle_serial_number(BaseSerialNumber, robot_index),
                   simulator |-> new(random_x[robot_index])]]

FleetTopics ==
  UNION {SubscribedTopics(fleet[robot_index].serial_number) :
           robot_index \in RobotIndexes}
FleetPayloads ==
  {OrderJson(Order("o1", 0, ShapeTwo(0).nodes, ShapeTwo(0).edges)),
   InstantActionsJson(InstantActions(<<initA>>))}

(* the vehicle's subscriber takes msg: it is subscribed to its topic *)
Receives(robot_index, msg) ==
  msg.topic \in SubscribedTopics(fleet[robot_index].serial_number)

(* FreshActionIds for the engine self *)
FreshActionIdsIn(self, payload) ==
  IsSome(from_str_instant_actions(payload)) =>
    \A i \in 1..Len(payload.value.actions) :
      \A j \in 1..Len(self.state.action_states) :
        payload.value.actions[i].action_id # self.state.action_states[j].action_id

(* a message of the fleet master is handled by the subscribers of its topic *)
FleetDeliver ==
  /\ \E topic \in FleetTopics : \E payload \in FleetPayloads :
       LET msg == Message(topic, payload)
       IN  /\ \A robot_index \in RobotIndexes :
                Receives(robot_index, msg) =>
                  FreshActionIdsIn(fleet[robot_index].simulator, payload)
           /\ fleet' = [robot_index \in RobotIndexes |->
                          IF Receives(robot_index, msg)
                          THEN [fleet[robot_index] EXCEPT
                                  !.simulator = handle_incoming_message(@, msg)]
                          ELSE fleet[robot_index]]
  /\ UNCHANGED <<engine, now, adapter>>

(* the publisher task of one vehicle ticks its engine *)
FleetUpdateState ==
  /\ \E robot_index \in RobotIndexes :
       fleet' = [fleet EXCEPT ![robot_index].simulator = update_state(@, now)]
  /\ UNCHANGED <<engine, now, adapter>>

FleetNext == FleetDeliver \/ FleetUpdateState \/ ClockSecond

FleetSpec == FleetInit /\ [][FleetNext]_vars

(* the set of the five topics of a serial number *)
TopicSet(serial_number) ==
  {Topics(serial_number)[f] : f \in DOMAIN Topics(serial_number)}

(* C19: the vehicles' serial numbers are the base serial followed by 1..N
   (also beyond nine robots), their topic sets are pairwise disjoint, and a
   step changes the engine of at most one vehicle: a message changes only
   the vehicle on whose topic it was sent, a tick only the vehicle ticked. *)
C19_VehiclesAreIndependent ==
  /\ [](/\ fleet[0].serial_number = "AGV1" /\ fleet[1].serial_number = "AGV2"
        /\ vehicle_serial_number("AGV", 9) = "AGV10"
        /\ \A i, j \in 0..11 :
             i # j => vehicle_serial_number(BaseSerialNumber, i)
                        # vehicle_serial_number(BaseSerialNumber, j)
        /\ \A i, j \in RobotIndexes :
             i # j => TopicSet(fleet[i].serial_number)
                        \cap TopicSet(fleet[j].serial_number) = {})
  /\ [][\A i, j \in RobotIndexes :
          (i # j /\ fleet'[i] # fleet[i]) => fleet'[j] = fleet[j]]_vars
  /\ [](\A i, j \in RobotIndexes : \A topic \in FleetTopics :
          \A payload \in FleetPayloads :
            (i # j /\ Receives(i, Message(topic, payload)))
               => ~Receives(j, Message(topic, payload)))

(* the first vehicle drives its order while the second, which received
   nothing, is as it was constructed; the order sent to the second vehicle's
   topic would change nothing there either *)
C19_Witness ==
  /\ fleet # << >>
  /\ IsSome(fleet[0].simulator.order)
  /\ Len(fleet[0].simulator.state.node_states) = 1
  /\ \E random_x \in InitXs : fleet[1].simulator = new(random_x)

(* ================= a publish that fails during the run ================= *)
(* the publisher task has ended: an unwrap() on a failed mqtt_publish
   panicked inside publish_connection, publish_state or
   publish_visualization, and nothing ticks the engine any more *)
PublisherTerminated == pub_pc = "panicked"

(* the start of the publisher task is over: both connection messages are
   out and the loop is running *)
PublisherRunning == Len(published.connection) = 2

(* C20: during the run a publish of a state or visualization message that
   fails never ends the publisher task: once the loop is running the task is
   always at one of its steps, so the engine keeps being ticked. *)
C20_PublisherOutlivesFailedPublish == PublisherRunning => ~PublisherTerminated

(* ================= the subscriber's reconnect loop ================= *)
(* the subscriber task is resumed when its reconnect attempt has returned
   and when its sleep is over *)
ReconnectSpec ==
  AdapterSpec /\ WF_vars(HandleConnectionLoss) /\ WF_vars(ReconnectSleep)

Reconnecting == sub_pc \in {"reconnect", "reconnect_sleep"}

(* C21: after the stream signalled a lost connection the subscriber holds no
   message and not the engine; a failed attempt is followed by the 1 s sleep
   and the sleep by the next attempt, again and again, and only a successful
   attempt leads back to waiting for messages; the steps of the reconnect
   change no engine state and publish nothing. *)
C21_ReconnectUntilSuccess ==
  /\ [](Reconnecting => (incoming = None /\ lock # "subscriber"))
  /\ [][(Reconnecting /\ sub_pc' # sub_pc)
          => /\ sub_pc = "reconnect" => sub_pc' \in {"next", "reconnect_sleep"}
             /\ sub_pc = "reconnect_sleep" => sub_pc' = "reconnect"
             /\ UNCHANGED <<engine, connection, published, lock, incoming,
                            pub_pc, state_counter, visualization_counter>>]_vars
  /\ [][(sub_pc = "next" /\ sub_pc' = "reconnect")
          => UNCHANGED <<engine, connection, published, lock, incoming>>]_vars
  /\ (sub_pc = "reconnect_sleep") ~> (sub_pc = "reconnect")
  /\ (sub_pc = "reconnect") ~> (sub_pc \in {"next", "reconnect_sleep"})

(* a reconnect attempt failed during the run: states were published, an
   order is being driven, and the subscriber sleeps before its next attempt *)
C21_Witness ==
  /\ sub_pc = "reconnect_sleep"
  /\ Len(published.state) >= 1
  /\ state.node_states # <<>>

(* ================= edges with a trajectory ================= *)
Point(px) == ControlPoint(px, 0, None, None)
ClampedKnots(d) == [i \in 1..(2 * d + 2) |-> IF i <= d + 1 THEN 0 ELSE One]

(* degree 1, two control points *)
Segment(from, to) == Trajectory(1, ClampedKnots(1), <<Point(from), Point(to)>>)
(* a quadratic curve along the x axis *)
Curve == Trajectory(2, ClampedKnots(2), <<Point(0), Point(550), Point(1100)>>)
(* zero length: every control point is the same point *)
ZeroLengthCurve ==
  Trajectory(2, ClampedKnots(2), <<Point(2000), Point(2000), Point(2000)>>)
(* degree + 1 knots: the basis has no element *)
EmptyBasis == Trajectory(2, <<0, 0, One>>, <<Point(0), Point(1000), Point(2000)>>)
(* fewer control points than basis weights *)
FewControlPoints == Trajectory(2, ClampedKnots(2), <<Point(0), Point(2000)>>)
(* one basis weight for degree 2, every knot 0 *)
OneWeight == Trajectory(2, <<0, 0, 0, 0>>, <<Point(2000)>>)

Segments == {Segment(0, 10000), Segment(10000, 0), Segment(0, 2000),
             Segment(2000, 2000)}
Trajectories ==
  Segments \cup {Curve, ZeroLengthCurve, EmptyBasis, FewControlPoints, OneWeight}

(* two released nodes joined by an edge with the trajectory *)
TrajectoryOrder(trajectory, from, to) ==
  Order("o1", 0,
        <<Node("n1", 0, TRUE, At(from), << >>), Node("n2", 2, TRUE, At(to), << >>)>>,
        <<Edge("e1", 1, TRUE, Some(trajectory), << >>)>>)

TrajectoryOrders ==
  {TrajectoryOrder(trajectory, from, to) :
     trajectory \in Segments, from \in {0, 2000}, to \in {2000, 4000, 10000}}
  \cup {TrajectoryOrder(Curve, 0, 1100),
        TrajectoryOrder(ZeroLengthCurve, 0, 2000),
        TrajectoryOrder(ZeroLengthCurve, 0, 4000),
        TrajectoryOrder(EmptyBasis, 0, 2000),
        TrajectoryOrder(FewControlPoints, 0, 2000),
        TrajectoryOrder(OneWeight, 0, 4000)}

(* the engine once the instant action initA has placed the vehicle *)
PlacedVehicle(random_x) ==
  update_state(accept_instant_actions(new(random_x), InstantActions(<<initA>>)), 0)

(* the vehicle is placed and the publisher loop is running: the connection
   messages are out *)
TrajectoryInit ==
  /\ \E self \in {PlacedVehicle(random_x) : random_x \in InitXs} :
       /\ state = self.state
       /\ visualization = self.visualization
       /\ order = self.order
       /\ instant_actions = self.instant_actions
       /\ action_start_time = self.action_start_time
  /\ now = 0
  /\ connection = connection_online(create_initial_connection)
  /\ published = [connection |-> <<connection_message(create_initial_connection),
                                   connection_message(connection_online(
                                       create_initial_connection))>>,
                  state |-> << >>, visualization |-> << >>]
  /\ lock = "free"
  /\ pub_pc = "update_state"
  /\ state_counter = 0
  /\ visualization_counter = 0
  /\ sub_pc = "next"
  /\ incoming = None
  /\ fleet = << >>

SubmitTrajectoryOrder ==
  /\ order = None
  /\ PositionInitialized(Self)
  /\ \E order_request \in TrajectoryOrders :
       Store(process_order(Self, order_request).self)
  /\ UNCHANGED <<now, adapter, fleet>>

(* the loop's update_state: it returns, or a panic inside
   update_vehicle_position ends the publisher task with the engine as
   process_node_actions left it *)
TrajectoryTick ==
  /\ pub_pc = "update_state"
  /\ \E fault \in {update_state_fault(Self, now)} :
         \/ /\ fault # Panic
            /\ Store(update_state(Self, now))
            /\ UNCHANGED pub_pc
         \/ /\ fault # NoFault
            /\ Store(Unwrap(update_state_before_motion(Self, now)))
            /\ pub_pc' = "panicked"
  /\ UNCHANGED <<now, connection, published, lock, state_counter,
                 visualization_counter, sub_pc, incoming, fleet>>

TrajectoryNext == SubmitTrajectoryOrder \/ TrajectoryTick

TrajectorySpec == TrajectoryInit /\ [][TrajectoryNext]_vars

(* ---------------- C22 ---------------- *)
(* the positions and targets the straight-line step is tried on *)
LinePositions == {0, 500, 1000, 1500, 2000, 5000, 9500, 10000, 12000}
LineTargets == {0, 2000, 4000, 10000}

(* the point on the segment from..to the claim describes: the projection of
   current_x advanced by speed and held at the segment end, or the target
   when that point is within speed of it *)
StraightLineStep(from, to, current_x, target_x) ==
  LET length == Abs(to - from)
      direction == IF to >= from THEN 1 ELSE -1
      projection == Min(Max((current_x - from) * direction, 0), length)
      advanced == Min(projection + Speed, length)
      point == from + direction * advanced
      theta == IF to >= from THEN 0 ELSE PI
  IN  IF Abs(point - target_x) <= Speed THEN <<target_x, 0, theta>>
      ELSE <<point, 0, theta>>

(* the vehicle drives an edge whose trajectory has degree 1 and two control
   points, and the tick reaches the motion step *)
DrivingSegment ==
  /\ IsSome(order) /\ IsSome(state.agv_position)
  /\ Len(state.node_states) = 2 /\ Len(state.edge_states) = 1
  /\ IsSome(state.edge_states[1].trajectory)
  /\ Unwrap(state.edge_states[1].trajectory).degree = 1
  /\ Len(Unwrap(state.edge_states[1].trajectory).control_points) = 2
  /\ ~is_action_in_progress(Self, now)
  /\ update_state_fault(Self, now) = NoFault

(* C22: a trajectory of degree 1 with two control points is stepped along
   its segment: from (0,0) to (10,0) with the vehicle at (0,0), the target
   (10,0) and step 1 the step gives (1,0) with theta 0; for every segment,
   position and target the step gives the projection of the position
   advanced by the speed, held at the segment end and replaced by the target
   within speed of it; and a tick of a vehicle driving such an edge writes
   that point to the state *)
C22_StraightLineStep ==
  /\ iterate_position_with_trajectory(0, 0, 10000, 0, 1000, Segment(0, 10000))
       = [fault |-> NoFault, position |-> <<1000, 0, 0>>]
  /\ \A trajectory \in Segments, current_x \in LinePositions,
        target_x \in LineTargets :
       iterate_position_with_trajectory(current_x, 0, target_x, 0, Speed,
                                        trajectory)
         = [fault |-> NoFault,
            position |-> StraightLineStep(trajectory.control_points[1].x,
                                          trajectory.control_points[2].x,
                                          current_x, target_x)]
  /\ DrivingSegment =>
       \E after \in {Unwrap(update_state(Self, now).state.agv_position)} :
         <<after.x, after.y, after.theta>>
           = StraightLineStep(
               Unwrap(state.edge_states[1].trajectory).control_points[1].x,
               Unwrap(state.edge_states[1].trajectory).control_points[2].x,
               Unwrap(state.agv_position).x,
               Unwrap(state.node_states[2].node_position).x)

(* the vehicle has made the first step of the segment from (0,0) to (10,0)
   and drives on towards (10,0) *)
C22_Witness ==
  /\ DrivingSegment
  /\ Unwrap(state.edge_states[1].trajectory) = Segment(0, 10000)
  /\ Unwrap(state.node_states[2].node_position).x = 10000
  /\ Unwrap(state.agv_position).x = 1000
  /\ Unwrap(state.agv_position).theta = 0

(* ---------------- C23 ---------------- *)
(* zero length, or a knot vector too short for the degree *)
DegenerateTrajectories == {ZeroLengthCurve, Segment(2000, 2000), EmptyBasis}

(* the vehicle drives an edge with a degenerate trajectory and the tick
   reaches the motion step *)
DrivingDegenerate ==
  /\ IsSome(order) /\ IsSome(state.agv_position)
  /\ Len(state.node_states) = 2 /\ Len(state.edge_states) = 1
  /\ IsSome(state.edge_states[1].trajectory)
  /\ Unwrap(state.edge_states[1].trajectory) \in DegenerateTrajectories
  /\ ~is_action_in_progress(Self, now)

(* C23: a tick that steps along an edge with a degenerate trajectory (zero
   length, or a basis without elements) completes with a position, and the
   publisher task is never ended by it *)
C23_DegenerateTrajectoryFallsBack ==
  /\ pub_pc # "panicked"
  /\ DrivingDegenerate =>
       /\ update_state_fault(Self, now) = NoFault
       /\ IsSome(update_state(Self, now).state.agv_position)

(* ---------------- C24 ---------------- *)
(* some NodeState is not released and the first NodeState is not the node
   the vehicle was last at *)
ArrivalPending(self) ==
  /\ \E i \in 1..Len(self.state.node_states) : ~self.state.node_states[i].released
  /\ self.state.node_states[1].sequence_id # self.state.last_node_sequence_id

(* the order gets to can_accept_new_order: another order_id, or the same
   order_id with a greater order_update_id *)
ReachesSharedChecks(self, order_request) ==
  \/ order_request.order_id # self.state.order_id
  \/ order_request.order_update_id > self.state.order_update_id

(* C24: while some NodeState is unreleased and node_states[0].sequence_id
   differs from last_node_sequence_id, every order that reaches the shared
   checks is rejected for not having arrived and the engine stays as it is *)
C24_ArrivalPendingRejects ==
  ArrivalPending(Self) =>
    \A order_request \in Orders :
      ReachesSharedChecks(Self, order_request) =>
        process_order(Self, order_request) = [self |-> Self, log |-> RejectArrival]

(* an order with an unreleased node is being driven, the vehicle stands at
   its first released node, and both a new order and an update could come *)
C24_Witness ==
  /\ ArrivalPending(Self)
  /\ is_vehicle_close_to_last_released_node(Self)
  /\ state.order_id = "o1"
  /\ state.order_update_id < MaxUpdateId
  /\ \E order_request \in Orders :
       /\ order_request.order_id = state.order_id
       /\ order_request.order_update_id > state.order_update_id

(* ---------------- C25 ---------------- *)
(* x coordinates the vehicle is put at: on a node, 0.05, 0.1 and 0.101 from
   it, and far from it *)
ProximityXs == {0, 50, 100, 101, 1899, 1900, 2000, 4000}

(* the engine with the vehicle's agv_position at px *)
VehicleAt(self, px) ==
  IF IsSome(self.state.agv_position)
  THEN [self EXCEPT !.state.agv_position = Some([Unwrap(@) EXCEPT !.x = px])]
  ELSE self

(* the engine with no NodeState released *)
NoneReleased(self) ==
  [self EXCEPT !.state.node_states =
     [i \in 1..Len(@) |-> [@[i] EXCEPT !.released = FALSE]]]

(* the engine whose NodeStates have no node_position *)
NoPositions(self) ==
  [self EXCEPT !.state.node_states =
     [i \in 1..Len(@) |-> [@[i] EXCEPT !.node_position = None]]]

(* the engines the proximity check is tried on: the reachable one and its
   variants *)
ProximityEngines ==
  LET moved == {Self} \cup {VehicleAt(Self, px) : px \in ProximityXs}
  IN  moved \cup {NoneReleased(self) : self \in moved}
            \cup {NoPositions(self) : self \in moved}

(* the first NodeState with released == true has a node_position and the
   vehicle has an agv_position farther than 0.1 from it *)
FarFromFirstReleased(self) ==
  \E i \in 1..Len(self.state.node_states) :
    /\ self.state.node_states[i].released
    /\ \A j \in 1..(i - 1) : ~self.state.node_states[j].released
    /\ IsSome(self.state.node_states[i].node_position)
    /\ IsSome(self.state.agv_position)
    /\ get_distance_sq(Unwrap(self.state.agv_position).x,
                       Unwrap(self.state.agv_position).y,
                       Unwrap(self.state.node_states[i].node_position).x,
                       Unwrap(self.state.node_states[i].node_position).y)
         > Tenth * Tenth

(* C25: the proximity check fails exactly when the first released NodeState
   has a node_position and the vehicle is farther than 0.1 from it; without
   a released NodeState, or without a position on it, the check passes
   wherever the vehicle is; and an order that gets past the arrival test is
   rejected for proximity exactly in the first case *)
C25_ProximityCheck ==
  \A self \in ProximityEngines :
    /\ is_vehicle_close_to_last_released_node(self) <=> ~FarFromFirstReleased(self)
    /\ (\A i \in 1..Len(self.state.node_states) :
           ~self.state.node_states[i].released)
         => is_vehicle_close_to_last_released_node(self)
    /\ (\A i \in 1..Len(self.state.node_states) :
           ~IsSome(self.state.node_states[i].node_position))
         => is_vehicle_close_to_last_released_node(self)
    /\ ~ArrivalPending(self) =>
         \A order_request \in Orders :
           ReachesSharedChecks(self, order_request) =>
             ((process_order(self, order_request)
                 = [self |-> self, log |-> RejectProximity])
               <=> FarFromFirstReleased(self))

(* the vehicle has driven away from the first released NodeState of its
   order, whose next released NodeState is elsewhere *)
C25_Witness ==
  /\ FarFromFirstReleased(Self)
  /\ ~ArrivalPending(Self)
  /\ Len(state.node_states) >= 2
  /\ state.node_states[2].released
  /\ \E order_request \in Orders : ReachesSharedChecks(Self, order_request)

(* ---------------- C26 ---------------- *)
(* the action_ids of the actions of a node *)
ActionIdsOf(node) == {node.actions[k].action_id : k \in 1..Len(node.actions)}

(* the action_ids of the actions of the order's nodes *)
NodeActionIds(self) ==
  IF IsSome(self.order)
  THEN UNION {ActionIdsOf(Unwrap(self.order).nodes[n]) :
                n \in 1..Len(Unwrap(self.order).nodes)}
  ELSE {}

(* the action_ids of the first order node whose sequence_id is
   last_node_sequence_id *)
LastNodeActionIds(self) ==
  IF IsSome(self.order)
  THEN UNION {ActionIdsOf(Unwrap(self.order).nodes[n]) :
                n \in {m \in 1..Len(Unwrap(self.order).nodes) :
                         /\ Unwrap(self.order).nodes[m].sequence_id
                              = self.state.last_node_sequence_id
                         /\ \A l \in 1..(m - 1) :
                              Unwrap(self.order).nodes[l].sequence_id
                                # self.state.last_node_sequence_id}}
  ELSE {}

(* the ActionStates of order node actions that are WAITING in before and
   FINISHED in after *)
Graduated(before, after) ==
  {i \in 1..Len(before.state.action_states) :
     /\ before.state.action_states[i].action_id \in NodeActionIds(before)
     /\ before.state.action_states[i].action_status = Waiting
     /\ after.state.action_states[i].action_status = Finished}

(* the WAITING ActionStates of the actions of the node the vehicle is at *)
WaitingAtLastNode(self) ==
  {i \in 1..Len(self.state.action_states) :
     /\ self.state.action_states[i].action_id \in LastNodeActionIds(self)
     /\ self.state.action_states[i].action_status = Waiting}

(* C26: a tick moves at most one order node action from WAITING to
   FINISHED; it is the first WAITING ActionState, in the order of
   action_states, of an action of the order node whose sequence_id is
   last_node_sequence_id; the tick sets action_start_time to the current
   time, and the ticks of the next action_time seconds change nothing *)
C26_OneNodeActionPerTick ==
  \E after \in {update_state(Self, now)} :
    /\ Len(after.state.action_states) = Len(state.action_states)
    /\ Cardinality(Graduated(Self, after)) <= 1
    /\ \A i \in Graduated(Self, after) :
         /\ i \in WaitingAtLastNode(Self)
         /\ \A j \in WaitingAtLastNode(Self) : i <= j
         /\ after.action_start_time = Some(now)
         /\ \A later \in now..(now + ActionTime - 1) :
              update_state(after, later) = after
    /\ (~is_action_in_progress(Self, now) /\ IsSome(order)
          /\ WaitingAtLastNode(Self) # {})
         => Graduated(Self, after) # {}

(* two actions of the node the vehicle is at are WAITING and the tick is
   not blocked *)
C26_Witness ==
  /\ Cardinality(WaitingAtLastNode(Self)) >= 2
  /\ ~is_action_in_progress(Self, now)
  /\ Graduated(Self, update_state(Self, now)) # {}

(* ---------------- C27 ---------------- *)
(* iterations from one publication on a topic to the next *)
StatePeriod == (1000 \div StateFrequency) \div 50 + 1
VisualizationPeriod == (1000 \div VisualizationFrequency) \div 50 + 1

(* the loop head is left: one iteration starts *)
IterationStarts == pub_pc = "update_state" /\ pub_pc' # "panicked"
                     /\ <<state_counter, visualization_counter, pub_pc>>'
                          # <<state_counter, visualization_counter, pub_pc>>

(* C27: an iteration of the publish loop ticks the engine once, before its
   publications, and increments each counter once; the state (resp. the
   visualization) is published in the iterations where the incremented
   counter c has c * 50 > 1000 div frequency, which leaves the counter at 0,
   so that publications on a topic are (1000 div frequency) div 50 + 1
   iterations apart *)
C27_PublishLoopCounters ==
  /\ [](state_counter \in 0..(StatePeriod - 1)
          /\ visualization_counter \in 0..(VisualizationPeriod - 1))
  /\ [](pub_pc \in {"publish_state", "state_sent"} => state_counter = 0)
  /\ [](pub_pc \in {"publish_visualization", "visualization_sent"}
          => visualization_counter = 0)
  /\ [][IterationStarts =>
          /\ Store(update_state(Self, now))
          /\ UNCHANGED published
          /\ state_counter' = (state_counter + 1) % StatePeriod
          /\ (pub_pc' = "publish_state")
               <=> ((state_counter + 1) * 50 > 1000 \div StateFrequency)
          /\ (pub_pc' = "publish_state") <=> (state_counter + 1 = StatePeriod)
          /\ pub_pc' = "publish_state" => UNCHANGED visualization_counter
          /\ pub_pc' # "publish_state" =>
               /\ visualization_counter'
                    = (visualization_counter + 1) % VisualizationPeriod
               /\ (pub_pc' = "publish_visualization")
                    <=> ((visualization_counter + 1) * 50
                           > 1000 \div VisualizationFrequency)
               /\ pub_pc' \in {"publish_visualization", "update_state"}]_vars
  /\ [][state_counter' # state_counter => pub_pc = "update_state"]_vars
  /\ [][visualization_counter' # visualization_counter
          => pub_pc \in {"update_state", "state_sent"}]_vars
  /\ [][(pub_pc = "state_sent" /\ pub_pc' \notin {"state_sent", "panicked"}) =>
          /\ Len(published.state') = Len(published.state) + 1
          /\ UNCHANGED <<engine, state_counter>>
          /\ visualization_counter'
               = (visualization_counter + 1) % VisualizationPeriod
          /\ (pub_pc' = "publish_visualization")
               <=> (visualization_counter + 1 = VisualizationPeriod)
          /\ pub_pc' \in {"publish_visualization", "update_state"}]_vars
  /\ [][published.state' # published.state => pub_pc = "state_sent"]_vars
  /\ [][published.visualization' # published.visualization
          => pub_pc = "visualization_sent"]_vars
  /\ [][(pub_pc = "visualization_sent" /\ pub_pc' \notin {"visualization_sent", "panicked"}) =>
          /\ Len(published.visualization') = Len(published.visualization) + 1
          /\ pub_pc' = "update_state"
          /\ UNCHANGED <<engine, state_counter, visualization_counter>>]_vars

(* the loop has published two states, the second in its sixth iteration,
   and two visualizations, and the third visualization is due *)
C27_Witness ==
  /\ Len(published.state) = 2
  /\ Len(published.visualization) = 2
  /\ state_counter = 0
  /\ pub_pc = "publish_visualization"

(* ---------------- C28, C29, C30: the motion step ---------------- *)
(* the engines update_vehicle_position is tried on: the reachable engine,
   the engine as the tick hands it to the motion step, and both as they are
   for an order without edges *)
MotionEngines ==
  LET reached == {Self} \cup
                   {Unwrap(before) :
                      before \in {update_state_before_motion(Self, now)} \ {None}}
  IN  reached \cup {[self EXCEPT !.state.edge_states = << >>] : self \in reached}

(* index in node_states of the next node: the one after the first NodeState
   whose sequence_id is last_node_sequence_id, the second when there is none *)
NextNodeIndex(self) ==
  LET matches == {i \in 1..Len(self.state.node_states) :
                    self.state.node_states[i].sequence_id
                      = self.state.last_node_sequence_id}
  IN  IF matches = {} THEN 2
      ELSE (CHOOSE i \in matches : \A j \in matches : i <= j) + 1

NextNodeExists(self) == NextNodeIndex(self) <= Len(self.state.node_states)

(* the next node exists, is released and has a position *)
NextNodeDrivable(self) ==
  /\ NextNodeExists(self)
  /\ self.state.node_states[NextNodeIndex(self)].released
  /\ IsSome(self.state.node_states[NextNodeIndex(self)].node_position)

(* C28: with two or more NodeStates and a next node that is not released,
   has no position or does not exist, the motion step changes nothing of the
   engine, in particular not agv_position, the visualization, node_states,
   edge_states, last_node_id and last_node_sequence_id; and a motion step
   that moves the vehicle has a released next node *)
C28_NoMotionWithoutReleasedTarget ==
  \A self \in MotionEngines :
    /\ (Len(self.state.node_states) >= 2 /\ ~NextNodeDrivable(self))
         => update_vehicle_position(self) = self
    /\ update_vehicle_position(self).state.agv_position # self.state.agv_position
         => /\ NextNodeExists(self)
            /\ self.state.node_states[NextNodeIndex(self)].released

(* the vehicle stands at the last released node of its order, the next
   NodeState is not released, and the tick gets to the motion step *)
C28_Witness ==
  /\ Len(state.node_states) >= 2
  /\ NextNodeExists(Self)
  /\ ~state.node_states[NextNodeIndex(Self)].released
  /\ state.node_states[1].sequence_id = state.last_node_sequence_id
  /\ IsSome(update_state_before_motion(Self, now))

(* the motion step has a next node to drive to *)
Moving(self) ==
  /\ IsSome(self.state.agv_position)
  /\ Len(self.state.node_states) >= 2
  /\ NextNodeDrivable(self)

(* distance from the vehicle to the next node < speed + 0.1 *)
Arrives(self) ==
  LET vehicle_position == Unwrap(self.state.agv_position)
      next_node_position ==
        Unwrap(self.state.node_states[NextNodeIndex(self)].node_position)
  IN  (vehicle_position.x - next_node_position.x)
        * (vehicle_position.x - next_node_position.x)
      + (vehicle_position.y - next_node_position.y)
        * (vehicle_position.y - next_node_position.y)
      < (Speed + Tenth) * (Speed + Tenth)

(* the engine with the position written to agv_position and to the
   visualization *)
WithPosition(self, position) ==
  LET agv_pos == Some([Unwrap(self.state.agv_position) EXCEPT
                         !.x = position[1], !.y = position[2],
                         !.theta = position[3]])
  IN  [self EXCEPT !.state.agv_position = agv_pos,
                   !.visualization.agv_position = agv_pos]

(* C29: a motion step towards the next node N writes the computed position
   to agv_position and to the visualization; it is an arrival exactly when
   the distance from the position before the step to N is below
   speed + 0.1; on an arrival the heads of node_states and of edge_states
   (if any) are removed and last_node_id and last_node_sequence_id become
   N's; without an arrival these four stay; nothing else changes *)
C29_MotionStepAndArrival ==
  \A self \in MotionEngines :
    Moving(self) =>
      \E after \in {update_vehicle_position(self)},
         N \in {self.state.node_states[NextNodeIndex(self)]} :
        \E written \in {WithPosition(self,
                           calculate_new_position(
                             self, Unwrap(self.state.agv_position),
                             Unwrap(N.node_position), N))} :
          IF Arrives(self)
          THEN after = [written EXCEPT
                          !.state.node_states = Tail(@),
                          !.state.edge_states =
                             IF @ = << >> THEN << >> ELSE Tail(@),
                          !.state.last_node_id = N.node_id,
                          !.state.last_node_sequence_id = N.sequence_id]
          ELSE after = written

(* the vehicle is one step short of the next node and the tick brings it
   there *)
C29_Witness ==
  /\ Moving(Self)
  /\ Arrives(Self)
  /\ Unwrap(state.agv_position).x
       # Unwrap(state.node_states[NextNodeIndex(Self)].node_position).x
  /\ state.edge_states # << >>
  /\ update_state_before_motion(Self, now) = Some(Self)

(* C30: with exactly one NodeState at the motion step, that NodeState is
   removed and nothing else changes: agv_position, edge_states, last_node_id
   and last_node_sequence_id keep their values *)
C30_LoneNodeStateIsRemoved ==
  \A self \in MotionEngines :
    Len(self.state.node_states) = 1 =>
      update_vehicle_position(self) = [self EXCEPT !.state.node_states = << >>]

(* one NodeState and an EdgeState are left and the tick gets to the motion
   step *)
C30_Witness ==
  /\ Len(state.node_states) = 1
  /\ state.edge_states # << >>
  /\ IsSome(update_state_before_motion(Self, now))

(* ---------------- C31 ---------------- *)
(* a step of the accepted order that removes the head of node_states *)
NodeStateRemoved ==
  /\ order' = order
  /\ state.node_states # << >>
  /\ state.node_states' = Tail(state.node_states)

(* a step of the accepted order that removes the head of edge_states *)
EdgeStateRemoved ==
  /\ order' = order
  /\ state.edge_states # << >>
  /\ state.edge_states' = Tail(state.edge_states)

(* C31: a NodeState is removed only when the vehicle has reached its node,
   last_node_sequence_id being its sequence_id, and an EdgeState only in a
   step that arrives at the node after the edge *)
C31_StatesKeptUntilPassed ==
  /\ [][NodeStateRemoved =>
          state.last_node_sequence_id = Head(state.node_states).sequence_id]_vars
  /\ [][EdgeStateRemoved =>
          /\ state.last_node_sequence_id' # state.last_node_sequence_id
          /\ state.last_node_sequence_id' = Head(state.edge_states).sequence_id + 1]_vars

(* ---------------- C32 ---------------- *)
InitPositionKeys == {"x", "y", "theta", "mapId", "lastNodeId"}

ParameterValues == <<FloatV(1570), StrV("2"), StrV("left"), IntV(7)>>

(* an initPosition action with one parameter, alone or behind a parameter
   of another key *)
InitPositionAction(key, v, behind) ==
  Action("ia", "initPosition",
         Some((IF behind THEN <<Param("speed", FloatV(1000))>> ELSE << >>)
              \o <<Param(key, ParameterValues[v])>>))

(* where an action carries a value of a kind under a key *)
ValuesOf(action, key, kind) ==
  IF IsSome(action.action_parameters)
  THEN {i \in 1..Len(Unwrap(action.action_parameters)) :
          /\ Unwrap(action.action_parameters)[i].key = key
          /\ Unwrap(action.action_parameters)[i].value.kind = kind}
  ELSE {}

ValueAt(action, i) == Unwrap(action.action_parameters)[i].value.v

ExpectedFloat(action, key) ==
  IF ValuesOf(action, key, "Float") # {}
  THEN ValueAt(action, CHOOSE i \in ValuesOf(action, key, "Float") : TRUE)
  ELSE IF \E i \in ValuesOf(action, key, "Str") : IsSome(parse_f32(ValueAt(action, i)))
  THEN Unwrap(parse_f32(ValueAt(action, CHOOSE i \in ValuesOf(action, key, "Str") : TRUE)))
  ELSE 0

ExpectedString(action, key) ==
  IF ValuesOf(action, key, "Str") # {}
  THEN ValueAt(action, CHOOSE i \in ValuesOf(action, key, "Str") : TRUE)
  ELSE ""

InitPositionParameters(action) ==
  LET handled == handle_init_position_action(Self, action)
      pos == Unwrap(handled.state.agv_position)
  IN  /\ pos.x = ExpectedFloat(action, "x")
      /\ pos.y = ExpectedFloat(action, "y")
      /\ pos.theta = ExpectedFloat(action, "theta")
      /\ pos.map_id = ExpectedString(action, "mapId")
      /\ handled.state.last_node_id = ExpectedString(action, "lastNodeId")

(* C32: initPosition takes x, y and theta from a float value or a string
   that parses as one and uses 0.0 otherwise, and takes mapId and lastNodeId
   from a string value and uses the empty string otherwise *)
C32_InitPositionParameters ==
  /\ InitPositionParameters(Action("ia", "initPosition", None))
  /\ InitPositionParameters(Action("ia", "initPosition", Some(<< >>)))
  /\ InitPositionParameters(initA)
  /\ InitPositionParameters(initB)
  /\ \A key \in InitPositionKeys, v \in 1..Len(ParameterValues), behind \in BOOLEAN :
       InitPositionParameters(InitPositionAction(key, v, behind))

(* the tick has run the initPosition whose x is the string "2", whose theta
   does not parse, whose mapId is an integer and which has no y *)
C32_Witness ==
  /\ \E i \in 1..Len(state.action_states) :
       /\ state.action_states[i].action_id = initB.action_id
       /\ state.action_states[i].action_status = Finished
  /\ state.agv_position = Some(AgvPosition(2000, 0, 0, TRUE, ""))
  /\ state.last_node_id = "n2"

(* ---------------- C33 ---------------- *)
(* a step in which process_order accepts an order *)
OrderAccepted == order' # order

(* C33: accepting an order sets last_node_sequence_id to 0 exactly when its
   order_update_id is 0; accepting one with a greater update id leaves
   last_node_sequence_id and last_node_id unchanged *)
C33_AcceptResetsOnlyForUpdateZero ==
  /\ [][OrderAccepted /\ Unwrap(order').order_update_id = 0 =>
          state.last_node_sequence_id' = 0]_vars
  /\ [][OrderAccepted /\ Unwrap(order').order_update_id > 0 =>
          /\ state.last_node_sequence_id' = state.last_node_sequence_id
          /\ state.last_node_id' = state.last_node_id]_vars
  /\ [](\A order_request \in Orders :
         LET accepted == process_order(Self, order_request)
         IN  accepted.log = AcceptLog =>
               /\ accepted.self.order = Some(order_request)
               /\ accepted.self.state.last_node_sequence_id =
                    IF order_request.order_update_id = 0 THEN 0
                    ELSE state.last_node_sequence_id
               /\ order_request.order_update_id > 0 =>
                    accepted.self.state.last_node_id = state.last_node_id)

(* an update with order_update_id 1 was accepted after the vehicle arrived
   at a node: its states are complete and the last node is kept *)
C33_Witness ==
  /\ IsSome(order)
  /\ state.order_update_id = 1
  /\ Len(state.node_states) = Len(Unwrap(order).nodes)
  /\ Len(state.node_states) > 0
  /\ state.last_node_sequence_id > 0
  /\ state.last_node_id = "n2"

(* ---------------- C34 ---------------- *)
Mirrored(self) == self.visualization.agv_position = self.state.agv_position

(* C34: after construction and after every engine operation
   (accept_instant_actions, process_order, update_state, the publish
   operations) the visualization's agv_position equals state.agv_position *)
C34_VisualizationMirrorsPosition ==
  /\ Mirrored(Self)
  /\ \A msg \in InstantActionsMessages : Mirrored(accept_instant_actions(Self, msg))
  /\ \A order_request \in Orders : Mirrored(process_order(Self, order_request).self)
  /\ Mirrored(update_state(Self, now))
  /\ Mirrored(publish_state(Self))
  /\ Mirrored(publish_visualization(Self))

(* the position was set by an initPosition and then changed by an arrival,
   and both buffers have been published *)
C34_Witness ==
  /\ PositionInitialized(Self)
  /\ state.last_node_sequence_id > 0
  /\ state.header_id > 0
  /\ visualization.header_id > 0
  /\ Mirrored(Self)

(* ---------------- C35 ---------------- *)
(* the accepted order is a path: one edge between consecutive nodes *)
PathOrder ==
  /\ IsSome(order)
  /\ Len(Unwrap(order).edges) = Len(Unwrap(order).nodes) - 1

(* C35: while the accepted order has one edge less than nodes,
   |edge_states| = max(|node_states| - 1, 0): node_states is never empty
   while edge_states is not, and once the last node is popped the two are
   empty, which is what readiness for a new order asks of them *)
C35_EdgeStatesFollowNodeStates ==
  PathOrder =>
    /\ Len(state.edge_states) = Max(Len(state.node_states) - 1, 0)
    /\ state.edge_states # << >> => state.node_states # << >>
    /\ state.node_states = << >> =>
         (is_vehicle_ready_for_new_order(Self) <=> PositionInitialized(Self))

(* the vehicle has driven a two-node order to its end: both lists are empty
   and it is ready for a new order *)
C35_Witness ==
  /\ PathOrder
  /\ Len(Unwrap(order).nodes) = 2
  /\ state.node_states = << >>
  /\ state.edge_states = << >>
  /\ state.last_node_id = "n2"
  /\ is_vehicle_ready_for_new_order(Self)

(* ---------------- C36 ---------------- *)
(* instant actions arriving in any interleaving with the ticks of the
   publisher loop, around one order; ticks keep occurring and every
   action_time period elapses *)
InstantNext ==
  AcceptInstantActions \/ SubmitOrder \/ UpdateState \/ ActionTimePasses

InstantSpec ==
  /\ Init
  /\ [][InstantNext]_vars
  /\ TickFairness
  /\ WF_vars(ActionTimePasses)

InstantActionIds == {initA.action_id, initB.action_id, honk.action_id}

(* an ActionState of the action is there and is not FINISHED *)
Unfinished(action_id) ==
  \E i \in 1..Len(state.action_states) :
    /\ state.action_states[i].action_id = action_id
    /\ state.action_states[i].action_status # Finished

(* C36: every ActionState appended by accept_instant_actions eventually
   becomes FINISHED or is removed by an accepted order, under continued
   ticks and elapsing action_time, also when a second InstantActions message
   arrives before the actions of the first were processed *)
C36_InstantActionsFinish ==
  \A action_id \in InstantActionIds :
    Unfinished(action_id) ~> ~Unfinished(action_id)

(* ---------------- C37 ---------------- *)
(* sequence_ids interleave as node 1, edge 2, node 3, edge 4, ... *)
SequencedFromOne(order_request) ==
  /\ \A i \in 1..Len(order_request.nodes) :
       order_request.nodes[i].sequence_id = 2 * i - 1
  /\ \A i \in 1..Len(order_request.edges) :
       order_request.edges[i].sequence_id = 2 * i

(* the accepted order has update id 0, sequence_ids from node 1, all nodes
   released and positioned, and the action is an unfinished action of one of
   its nodes *)
NodeActionPending(action_id) ==
  /\ IsSome(order)
  /\ Drivable(Unwrap(order))
  /\ SequencedFromOne(Unwrap(order))
  /\ action_id \in NodeActionIds(Self)
  /\ Unfinished(action_id)

(* C37: for an accepted order with update id 0, sequence_ids interleaved
   from node 1 and all nodes released and positioned, the ActionState of
   every node action, those of the first and of the last node included,
   eventually becomes FINISHED under continued ticks and elapsing
   action_time *)
C37_NodeActionsFinish ==
  \A action_id \in {pick.action_id, drop.action_id, blink.action_id} :
    NodeActionPending(action_id) ~> ~Unfinished(action_id)

(* ---------------- C38 ---------------- *)
Status(action_id, status) ==
  \E i \in 1..Len(state.action_states) :
    /\ state.action_states[i].action_id = action_id
    /\ state.action_states[i].action_status = status

(* no action of the stored InstantActions request is WAITING *)
StoredActionsHandled ==
  /\ IsSome(instant_actions)
  /\ \A k \in 1..Len(Unwrap(instant_actions).actions) :
       ~Status(Unwrap(instant_actions).actions[k].action_id, Waiting)

(* C38: an instant action is handled at most once: once its ActionState is
   FINISHED no later step sets it back to WAITING or RUNNING, and the tick,
   which re-examines the stored request, changes nothing for actions
   already handled, so an initPosition is not applied again *)
C38_InstantActionHandledOnce ==
  /\ [][\A action_id \in InstantActionIds :
          Status(action_id, Finished) =>
            /\ ~Status(action_id, Waiting)'
            /\ ~Status(action_id, Running)']_vars
  /\ [](StoredActionsHandled => process_instant_actions(Self) = Self)

(* the initPosition of the stored request is FINISHED and the vehicle has
   since driven away from the position it set *)
C38_Witness ==
  /\ instant_actions = Some(InstantActions(<<initA>>))
  /\ Status(initA.action_id, Finished)
  /\ Unwrap(state.agv_position).x # extract_float_param(initA, "x")
  /\ PositionInitialized(Self)

(* ---------------- C39 ---------------- *)
SameOrderId == state.order_id' = state.order_id

(* C39: across process_order calls, ticks and instant actions, while
   state.order_id keeps its value state.order_update_id never decreases,
   and it strictly increases at every accepted order that keeps the
   order_id *)
C39_UpdateIdGrowsWithinOrder ==
  /\ [][SameOrderId => state.order_update_id' >= state.order_update_id]_vars
  /\ [][SameOrderId /\ OrderAccepted =>
          state.order_update_id' > state.order_update_id]_vars

(* order o1 is under way at update id 0 and its update with id 1 is
   accepted, keeping the order_id *)
C39_Witness ==
  /\ state.order_id = "o1"
  /\ state.order_update_id = 0
  /\ state.node_states # << >>
  /\ \E o \in Orders :
       /\ o.order_id = "o1"
       /\ Accepted(o)
       /\ After(o).state.order_update_id = 1

(* ---------------- C40 ---------------- *)
(* publish_connection has started and its ONLINE message is not yet
   published *)
PublishingConnection ==
  pub_pc \in {"connection_broken", "connection_sleep", "connection_online"}

(* C40: from the start of publish_connection until the ONLINE message is
   published the publisher holds the engine lock, across both publishes and
   the 1 s wait; no inbound order or instant action is applied to the
   engine in between, a message received meanwhile waits for the lock *)
C40_ConnectionHandshakeHoldsLock ==
  /\ [](PublishingConnection => lock = "publisher" /\ sub_pc # "locked")
  /\ [][PublishingConnection => UNCHANGED engine]_vars
  /\ [][PublishingConnection /\ IsSome(incoming) /\ LocksSimulator(Unwrap(incoming))
          => incoming' = incoming]_vars

(* an order or instant-actions message has been received while the
   publisher sleeps between the two connection messages *)
C40_Witness ==
  /\ pub_pc = "connection_sleep"
  /\ lock = "publisher"
  /\ sub_pc = "handle"
  /\ IsSome(incoming)
  /\ LocksSimulator(Unwrap(incoming))

====
